---------------------------- MODULE Spec2Model ----------------------------
(***************************************************************************)
(* A model of the image-preparation and atomic-copy engine of the          *)
(* suspend2 / TuxOnIce hibernation code:                                   *)
(*   kernel/power/prepare_image.c  classification of page frames and the   *)
(*                                 negotiation of memory and storage,      *)
(*   kernel/power/atomic_copy.c    the atomic copy and the staged unwind,  *)
(*   kernel/power/pagedir.c        the marking of pageset2.                *)
(*                                                                         *)
(* Three entry points are modelled, each with its own initial states and   *)
(* its own actions over the shared variables:                              *)
(*   - the page-frame level: classification passes, extra pagedir memory   *)
(*     and __suspend_post_context_save over a small page space;            *)
(*   - the counter level: suspend_prepare_image over page counts per zone; *)
(*   - suspend2_go_atomic / suspend2_end_atomic.                           *)
(***************************************************************************)
EXTENDS Integers, Sequences, FiniteSets, TLC

(***************************************************************************)
(* Bounds of the model.                                                    *)
(***************************************************************************)
\* highest page frame number of the page-frame level (max_pfn)
MaxPfn == 3
\* number of changes the rest of the kernel makes to memory during one
\* attempt at the page-frame level
MaxEnvSteps == 1

VARIABLES
    pc,                         \* position of the modelled control flow
    toi_result,                 \* result-state word, as the set of its set bits
    toi_action,                 \* action-state word, as the set of its set bits
    \* ---- page frames
    page_free,                  \* frames on the allocator's free lists
    page_nosave,                \* PageNosave
    page_nosave_free,           \* PageNosaveFree
    page_resave,                \* PageResave
    unsaveable,                 \* frames for which saveable_page() is NULL
    pfn_invalid,                \* frames for which pfn_valid() is false
    pageset1_map,
    pageset1_copy_map,
    pageset2_map,
    mem,                        \* content of each frame
    mmap,                       \* frames each task's address space maps
    mmap_skipped,               \* frames a task maps only in vmas the marking skips
    lru,                        \* frames on the zones' active/inactive lists
    env_steps,                  \* changes made by the rest of the kernel
    \* ---- prepare_image.c statics
    pagedir1,
    pagedir2,
    num_nosave,
    num_free,                   \* flag_image_pages' local, kept for inspection
    extra_pages_allocated,
    extras_list,
    extra_pd1_pages_allowance,
    extra_pd1_pages_used,
    \* ---- history of the atomic copy
    pre_copy,                   \* [mem, ps1, copy] when suspend_copy_pageset1 began
    copy_done,                  \* whether suspend_copy_pageset1 ran
    copy_overrun,               \* whether it indexed a frame past max_pfn
    copy_pairs,                 \* the <<source, destination>> indices it used
    tries,                      \* suspend_prepare_image's local
    retval,                     \* value returned by the last modelled call
    \* ---- the counter level: what suspend_prepare_image negotiates over
    nr_free_low,                \* real_nr_free_low_pages()
    nr_free_high,               \* real_nr_free_high_pages()
    pinned,                     \* [low, high]: pageset1 pages reclaim cannot free
    storage_available,
    main_storage_allocated,
    header_space_allocated,
    image_size_limit,
    expected_compression_ratio, \* suspend_expected_compression_ratio()
    header_bytes,               \* the bytes header_storage_needed() adds up
    shrink_mode,                \* how much of a request shrink_one_zone frees
    reclaim_from,               \* the pageset reclaim takes its pages from first
    \* ---- history of the negotiation
    shrink_exact,               \* every shrink_one_zone freed what was asked
    reclaimed,                  \* pages shrink_one_zone took, per pageset
    storage_exact,              \* every storage request was granted in full
    freeze_failed,              \* a freeze_processes() call has failed
    calls,                      \* eat_memory and update_image calls started
    lru_unlinked,               \* unlink_lru_lists() has run
    call_log,                   \* the calls suspend_prepare_image has made
    order_log,                  \* freezing, thawing, reclaim and counting, in order
    \* ---- suspend2_go_atomic / suspend2_end_atomic
    atomic_log,                 \* the steps taken, in order
    \* ---- pagedir.c at resume
    suspend_state,              \* suspend-state word, as the set of its set bits
    ps2_pfn,                    \* cursor into pageset2_map
    first_conflicting_page,     \* the chain of conflicting pages, head first
    restore_pblist,             \* the lowmem pbes, in list order
    restore_highmem_pblist,     \* the highmem pbes, in list order
    handed,                     \* the calls of ___suspend_get_nonconflicting_page
    high_start,                 \* the first frame of the highmem zone
    pbe_mem,                    \* the pbes written into the highmem pbe pages
    pbe_locals,                 \* the locals of the loop that links the pbes
    copied_back,                \* the copies copyback_high has made
    \* ---- the swap allocator's storage
    swap_slots_free,            \* the swap entries get_swap_page can still give
    swap_info,                  \* how each swap file's offsets map to sectors
    swapextents,
    block_chain,
    main_pages_allocated,
    main_pages_requested,
    header_pages_allocated,
    chain_log,                  \* the ranges added to each chain since it was emptied
    \* ---- the swap signature
    sig_header,                 \* the bytes at the signature, and the four after it
    header_dev_t,
    headerblock,                \* as its eight bytes, lowest first
    sig_args,                   \* [bdev, block]: what prepare_signature was given
    \* ---- the image streams
    stream_chains,              \* the block chains the cursor walks
    toi_writer_posn,
    toi_writer_posn_save,
    current_stream,
    toi_writer_buffer_posn,
    owner_requested,            \* what each module asked for, in units
    header_used,
    io_log,                     \* the pages written: stream, chain and offset
    bug_hit,                    \* toi_bio_rw_page has reached its BUG()
    \* ---- the netlink channel of a userspace helper
    user_helper_data,           \* the channel's state: pid, completed, version
    nl_tasks,                   \* the pids find_task_by_pid finds
    task_nofreeze,              \* the tasks whose flags hold PF_NOFREEZE
    nl_err,                     \* what the last message was answered with
    nl_last,                    \* the last message or call
    \* ---- the attention list of suspend_mark_pages_for_pageset2
    att_pc,                     \* where suspend_mark_pages_for_pageset2 is
    att_cursor,                 \* the task for_each_process has come to
    task_count,                 \* what the counting pass has counted
    attention_list,             \* the list's entries, in order
    att_next,                   \* 'next' of the fill pass, as an index
    att_processed,              \* the entries the last loop has processed
    \* ---- the completion of block i/o
    bio_pc,                     \* where the thread that does the i/o is
    io_state,                   \* how far each io_info and its toi_end_bio have come
    io_cleaned,                 \* how many times each io_info has been cleaned up
    ioinfo_ready_for_cleanup,   \* the list of that name
    toi_io_in_progress,         \* the atomic counter of that name
    toi_io_to_cleanup,          \* the atomic counter of that name
    waiting_on,                 \* the io whose page is waited on, 0 for NULL
    num_cleaned,                \* the local of toi_cleanup_completed_io
    \* ---- the queue of pages to write
    bio_queue,                  \* the pages from bio_queue_head to bio_queue_tail
    toi_bio_queue_mutex,        \* the thread that holds the mutex, 0 for none
    wq_thread,                  \* where each writing thread is
    wq_submitted,               \* the pages given to toi_bio_rw_page, in order
    pages_queued,               \* how many pages have been queued
    wq_failed,                  \* toi_bio_rw_page has returned an error
    wq_done,                    \* toi_rw_cleanup(WRITE) has returned
    \* ---- the readahead ring
    ra_pc,                      \* where toi_bio_read_page_with_readahead is
    max_readahead,              \* the size of the ring
    readahead_index,            \* the slot to consume next
    ra_submit_index,            \* the slot to submit next
    last_result,                \* the static of toi_bio_read_page_with_readahead
    toi_readahead_flags,        \* the ready bit of each slot
    toi_ra_pages,               \* the page of the image each slot's page holds
    ra_pending,                 \* the slots whose read is in flight
    ra_unconsumed,              \* the slots submitted and not yet copied
    ra_storage_left,            \* the pages before go_next_page meets the end
    ra_log,                     \* [consumed, submitted, overrun, result]
    \* ---- the helpers' channels and their pools of buffers
    uhds,                       \* each user_helper_data: pool_level, emerg_skbs
                                \* (how many buffers are on the list),
                                \* pool_limit, nl (the socket is there), next
    uhd_list,                   \* the head of the list of channels
    \* ---- the atomic restore
    suspend2_running            \* the flag of that name

page_vars == <<page_free, page_nosave, page_nosave_free, page_resave, unsaveable,
               pfn_invalid,
               pageset1_map, pageset1_copy_map, pageset2_map, mem, mmap, mmap_skipped, lru,
               env_steps>>
pd_vars == <<pagedir1, pagedir2, num_nosave, num_free, extra_pages_allocated,
             extras_list, extra_pd1_pages_allowance, extra_pd1_pages_used>>
hist_vars == <<pre_copy, copy_done, copy_overrun, copy_pairs, retval>>
prep_vars == <<nr_free_low, nr_free_high, pinned, storage_available,
               main_storage_allocated, header_space_allocated, image_size_limit,
               expected_compression_ratio, header_bytes, shrink_mode, reclaim_from,
               shrink_exact, reclaimed, storage_exact, freeze_failed, calls,
               lru_unlinked, call_log, order_log>>
pbe_vars == <<pbe_mem, pbe_locals, copied_back>>
load_vars == <<suspend_state, ps2_pfn, first_conflicting_page, restore_pblist,
               restore_highmem_pblist, handed, high_start, pbe_vars>>
swap_vars == <<swap_slots_free, swap_info, swapextents, block_chain,
               main_pages_allocated, main_pages_requested, header_pages_allocated,
               chain_log>>
sig_vars == <<sig_header, header_dev_t, headerblock, sig_args>>
stream_vars == <<stream_chains, toi_writer_posn, toi_writer_posn_save, current_stream,
                 toi_writer_buffer_posn, owner_requested, header_used, io_log,
                 bug_hit>>
nl_vars == <<user_helper_data, nl_tasks, task_nofreeze, nl_err, nl_last>>
att_vars == <<att_pc, att_cursor, task_count, attention_list, att_next,
              att_processed>>
bio_vars == <<bio_pc, io_state, io_cleaned, ioinfo_ready_for_cleanup,
              toi_io_in_progress, toi_io_to_cleanup, waiting_on, num_cleaned>>
wq_vars == <<bio_queue, toi_bio_queue_mutex, wq_thread, wq_submitted,
             pages_queued, wq_failed, wq_done>>
ra_vars == <<ra_pc, max_readahead, readahead_index, ra_submit_index, last_result,
             toi_readahead_flags, toi_ra_pages, ra_pending, ra_unconsumed,
             ra_storage_left, ra_log>>
uhd_vars == <<uhds, uhd_list>>
run_vars == <<suspend2_running>>
more_vars == <<att_vars, bio_vars, wq_vars, ra_vars, uhd_vars, run_vars>>
io_vars == <<sig_vars, stream_vars, nl_vars, more_vars>>
vars == <<pc, toi_result, toi_action, tries, page_vars, pd_vars, hist_vars,
          prep_vars, atomic_log, load_vars, swap_vars, io_vars>>

(***************************************************************************)
(* Arithmetic as C does it.                                                *)
(***************************************************************************)
Max(a, b) == IF a >= b THEN a ELSE b
Min(a, b) == IF a <= b THEN a ELSE b

\* C's integer division truncates toward zero
CDiv(a, b) ==
    IF a >= 0 THEN a \div b ELSE -((-a) \div b)

\* include/linux/kernel.h: #define DIV_ROUND_UP(n,d) (((n) + (d) - 1) / (d))
DIV_ROUND_UP(n, d) == CDiv(n + d - 1, d)

\* 1 << n
RECURSIVE Pow2(_)
Pow2(n) == IF n <= 0 THEN 1 ELSE 2 * Pow2(n - 1)

\* fls(): position of the most significant set bit, fls(0) = 0, fls(1) = 1
RECURSIVE fls(_)
fls(n) == IF n <= 0 THEN 0 ELSE 1 + fls(n \div 2)

(***************************************************************************)
(* Result and action states (tuxonice.h).                                  *)
(***************************************************************************)
AbortReasons == {"FREEZING_FAILED", "NOSTORAGE_AVAILABLE", "WOULD_EAT_MEMORY",
                 "EXTRA_PAGES_ALLOW_TOO_SMALL", "DEVICE_REFUSED",
                 "CPU_HOTPLUG_FAILED", "ARCH_PREPARE_FAILED",
                 "UNABLE_TO_PREPARE_IMAGE"}

\* set_abort_result(bit): sets the umbrella ABORTED bit, then the reason
\* set_abort_result as it would be if it set the reason alone
set_abort_result_reason_only(word, bit) == word \cup {bit}

set_abort_result(word, bit) == (word \cup {"ABORTED"}) \cup {bit}

test_result_state(word, bit) == bit \in word

test_action_state(word, bit) == bit \in word

(***************************************************************************)
(* The page space: one lowmem zone followed by one highmem zone.           *)
(***************************************************************************)
max_pfn == MaxPfn
Pfns == 0..max_pfn
HighStart == high_start
Zones == << [zone_start_pfn |-> 0, spanned_pages |-> HighStart, highmem |-> FALSE],
            [zone_start_pfn |-> HighStart, spanned_pages |-> max_pfn + 1 - HighStart,
             highmem |-> TRUE] >>
PageHighMem(pfn) == pfn >= HighStart
LowPfns == {p \in Pfns : ~PageHighMem(p)}

SetMin(S) == CHOOSE x \in S : \A y \in S : x <= y

\* get_next_bit_on(bitmap, counter): the first set bit when counter is
\* max_pfn + 1, else the next set bit after counter; max_pfn + 1 when none
get_next_bit_on(bitmap, counter) ==
    LET after == IF counter = max_pfn + 1 THEN bitmap
                 ELSE {p \in bitmap : p > counter}
    IN IF after = {} THEN max_pfn + 1 ELSE SetMin(after)

(***************************************************************************)
(* flag_image_pages (prepare_image.c).                                     *)
(***************************************************************************)
pfn_valid(pfn) == pfn \notin pfn_invalid

\* generate_free_page_map: NosaveFree is cleared for every frame of every
\* zone, then set for the frames on the buddy and per-cpu free lists
generate_free_page_map(free) == free

\* size_of_free_region: the number of consecutive NosaveFree frames that
\* begin at pfn, not going past the last frame of the zone
RECURSIVE size_of_free_region(_, _, _)
size_of_free_region(posn, last_in_zone, nsfree) ==
    IF posn <= last_in_zone /\ posn \in nsfree
    THEN 1 + size_of_free_region(posn + 1, last_in_zone, nsfree)
    ELSE 0

\* saveable_page / saveable_highmem_page: NULL for a frame that must not be saved
saveable_page(pfn) == pfn \notin unsaveable

\* FlagOnePage as it would be if a frame that is not to be saved were skipped
\* without being counted
FlagOnePageUncountedNosave(pfn, st, nosave, ps2, resave) ==
    IF ~saveable_page(pfn) \/ pfn \in nosave
    THEN st
    ELSE IF pfn \in ps2
    THEN LET a == [st EXCEPT !.pd2_size = @ + 1,
                             !.pd2_high = IF PageHighMem(pfn) THEN @ + 1 ELSE @,
                             !.copy = IF PageHighMem(pfn) THEN @ ELSE @ \cup {pfn}]
         IN IF pfn \in resave
            THEN [a EXCEPT !.ps1 = @ \cup {pfn},
                           !.copy = @ \ {pfn},
                           !.pd1_size = @ + 1,
                           !.pd1_high = IF PageHighMem(pfn) THEN @ + 1 ELSE @]
            ELSE a
    ELSE [st EXCEPT !.pd1_size = @ + 1,
                    !.ps1 = @ \cup {pfn},
                    !.pd1_high = IF PageHighMem(pfn) THEN @ + 1 ELSE @]

\* FlagOnePage as it would be without ClearPagePageset1Copy for a Resave page
FlagOnePageKeepsCopy(pfn, st, nosave, ps2, resave) ==
    IF ~saveable_page(pfn) \/ pfn \in nosave
    THEN [st EXCEPT !.num_nosave = @ + 1]
    ELSE IF pfn \in ps2
    THEN LET a == [st EXCEPT !.pd2_size = @ + 1,
                             !.pd2_high = IF PageHighMem(pfn) THEN @ + 1 ELSE @,
                             !.copy = IF PageHighMem(pfn) THEN @ ELSE @ \cup {pfn}]
         IN IF pfn \in resave
            THEN [a EXCEPT !.ps1 = @ \cup {pfn},
                           !.pd1_size = @ + 1,
                           !.pd1_high = IF PageHighMem(pfn) THEN @ + 1 ELSE @]
            ELSE a
    ELSE [st EXCEPT !.pd1_size = @ + 1,
                    !.ps1 = @ \cup {pfn},
                    !.pd1_high = IF PageHighMem(pfn) THEN @ + 1 ELSE @]

\* FlagOnePage as it would be if a Resave page of pageset 2 were left out of
\* pagedir1's counts
FlagOnePageResaveUncounted(pfn, st, nosave, ps2, resave) ==
    IF ~saveable_page(pfn) \/ pfn \in nosave
    THEN [st EXCEPT !.num_nosave = @ + 1]
    ELSE IF pfn \in ps2
    THEN LET a == [st EXCEPT !.pd2_size = @ + 1,
                             !.pd2_high = IF PageHighMem(pfn) THEN @ + 1 ELSE @,
                             !.copy = IF PageHighMem(pfn) THEN @ ELSE @ \cup {pfn}]
         IN IF pfn \in resave
            THEN [a EXCEPT !.ps1 = @ \cup {pfn},
                           !.copy = @ \ {pfn}]
            ELSE a
    ELSE [st EXCEPT !.pd1_size = @ + 1,
                    !.ps1 = @ \cup {pfn},
                    !.pd1_high = IF PageHighMem(pfn) THEN @ + 1 ELSE @]

\* lines 483-506: the classification of one frame that is not free
FlagOnePage(pfn, st, nosave, ps2, resave) ==
    IF ~saveable_page(pfn) \/ pfn \in nosave
    THEN [st EXCEPT !.num_nosave = @ + 1]
    ELSE IF pfn \in ps2
    THEN LET a == [st EXCEPT !.pd2_size = @ + 1,
                             !.pd2_high = IF PageHighMem(pfn) THEN @ + 1 ELSE @,
                             !.copy = IF PageHighMem(pfn) THEN @ ELSE @ \cup {pfn}]
         IN IF pfn \in resave
            THEN [a EXCEPT !.ps1 = @ \cup {pfn},
                           !.copy = @ \ {pfn},
                           !.pd1_size = @ + 1,
                           !.pd1_high = IF PageHighMem(pfn) THEN @ + 1 ELSE @]
            ELSE a
    ELSE [st EXCEPT !.pd1_size = @ + 1,
                    !.ps1 = @ \cup {pfn},
                    !.pd1_high = IF PageHighMem(pfn) THEN @ + 1 ELSE @]

\* lines 461-507: the loop over one zone's frames
RECURSIVE FlagZone(_, _, _, _, _, _, _)
FlagZone(zone, loop, st, nsfree, nosave, ps2, resave) ==
    IF loop >= zone.spanned_pages THEN st
    ELSE LET pfn == zone.zone_start_pfn + loop
             last == zone.zone_start_pfn + zone.spanned_pages - 1
             chunk_size == size_of_free_region(pfn, last, nsfree)
         IN IF ~pfn_valid(pfn)
            THEN FlagZone(zone, loop + 1, st, nsfree, nosave, ps2, resave)
            ELSE IF chunk_size > 0
            THEN FlagZone(zone, loop + chunk_size,
                          [st EXCEPT !.num_free = @ + chunk_size],
                          nsfree, nosave, ps2, resave)
            ELSE FlagZone(zone, loop + 1,
                          FlagOnePage(pfn, st, nosave, ps2, resave),
                          nsfree, nosave, ps2, resave)

RECURSIVE FlagZones(_, _, _, _, _, _)
FlagZones(z, st, nsfree, nosave, ps2, resave) ==
    IF z > Len(Zones) THEN st
    ELSE FlagZones(z + 1,
                   IF Zones[z].spanned_pages = 0 THEN st
                   ELSE FlagZone(Zones[z], 0, st, nsfree, nosave, ps2, resave),
                   nsfree, nosave, ps2, resave)

\* flag_image_pages: the counters and the two maps it writes, from the maps
\* it reads.  pageset1_map is cleared first; pageset1_copy_map is not.
flag_image_pages(free, nosave, ps2, resave, copy) ==
    FlagZones(1,
              [pd1_size |-> 0, pd1_high |-> 0, pd2_size |-> 0, pd2_high |-> 0,
               num_nosave |-> 0, num_free |-> 0, ps1 |-> {}, copy |-> copy],
              generate_free_page_map(free), nosave, ps2, resave)

(***************************************************************************)
(* suspend_mark_pages_for_pageset2 (pagedir.c).                            *)
(***************************************************************************)
\* The tasks of the model: an ordinary process, a userspace helper that
\* holds PF_NOFREEZE, and the task that runs the hibernation (current).
Tasks == {"proc", "helper", "current"}
PF_NOFREEZE(t) == t = "helper"
IsCurrent(t) == t = "current"
\* lines 148 and 171 as they would be if the invoking task were left out
NeedsAttentionNofreezeOnly(t) == PF_NOFREEZE(t)

\* lines 148 and 171: (p->flags & PF_NOFREEZE) || p == current
NeedsAttention(t) == PF_NOFREEZE(t) \/ IsCurrent(t)

\* suspend_mark_task_as_pageset: the frames follow_page() finds in the
\* task's ordinary vmas; nothing when the task has no mappings
TaskPages(maps, t) == maps[t]

\* pageset2_full: every frame on an active or inactive list
pageset2_full(lrupages) == lrupages

\* The map after the first phase (lines 129-142)
MarkPhase1(maps, lrupages) ==
    IF test_action_state(toi_action, "PAGESET2_FULL")
    THEN pageset2_full(lrupages)
    ELSE UNION {TaskPages(maps, t) : t \in Tasks}

\* suspend_mark_pages_for_pageset2: [ps2, ps1, result] from the maps before.
\* kmalloc_ok: whether every attention_list entry could be allocated.
suspend_mark_pages_for_pageset2(ps1, ps2, result, maps, lrupages, kmalloc_ok) ==
    IF test_action_state(toi_action, "NO_PAGESET2")
    THEN [ps1 |-> ps1, ps2 |-> ps2, result |-> result]
    ELSE LET marked == MarkPhase1(maps, lrupages)
             res == IF kmalloc_ok THEN result
                    ELSE set_abort_result(result, "UNABLE_TO_PREPARE_IMAGE")
             att == UNION {TaskPages(maps, t) : t \in {u \in Tasks : NeedsAttention(u)}}
         IN IF test_result_state(res, "ABORTED")
            THEN [ps1 |-> ps1, ps2 |-> marked, result |-> res]
            ELSE [ps1 |-> ps1 \cup att, ps2 |-> marked \ att, result |-> res]

(***************************************************************************)
(* suspend_recalculate_image_contents (prepare_image.c).                   *)
(***************************************************************************)
get_highmem_size(pd) == pd.highmem
get_lowmem_size(pd) == pd.size - pd.highmem

(***************************************************************************)
(* suspend_allocate_extra_pagedir_memory (prepare_image.c).                *)
(***************************************************************************)
MAX_ORDER == 11

\* prepare_image.c: #define MAX_TRIES 2
MAX_TRIES == 2

\* The first frames of the free, aligned, valid lowmem blocks of an order:
\* what __get_free_pages(GFP_ATOMIC | __GFP_NOWARN, order) may return
FreeBlocks(free, order) ==
    {b \in LowPfns : /\ b % Pow2(order) = 0
                     /\ \A j \in 0..(Pow2(order) - 1) :
                            b + j \in LowPfns /\ b + j \in free /\ pfn_valid(b + j)}

\* lines 104-106: order = fls(num_to_alloc), capped at MAX_ORDER - 1
FirstOrder(num_to_alloc) ==
    IF fls(num_to_alloc) >= MAX_ORDER THEN MAX_ORDER - 1 ELSE fls(num_to_alloc)

\* FitOrder as it would be if the order were never lowered to fit the need
FitOrderKept(order, num_to_alloc) == order

\* lines 113-114: while ((1 << order) > num_to_alloc) order--;
RECURSIVE FitOrder(_, _)
FitOrder(order, num_to_alloc) ==
    IF Pow2(order) > num_to_alloc THEN FitOrder(order - 1, num_to_alloc) ELSE order

\* lines 122-126: the largest order, from `order` down, with a block to give
RECURSIVE GrantedOrder(_, _)
GrantedOrder(free, order) ==
    IF FreeBlocks(free, order) # {} THEN order
    ELSE IF order = 0 THEN -1
    ELSE GrantedOrder(free, order - 1)

BlockPages(b, order) == {b + j : j \in 0..(Pow2(order) - 1)}

\* lines 108-151: the states the loop may end in.  st is [free, nosave, copy,
\* list, allocated, num_to_alloc, order]; budget is the number of blocks the
\* allocators (kmalloc and the page allocator) still grant.
RECURSIVE AllocLoop(_, _)
AllocLoop(st, budget) ==
    IF st.num_to_alloc = 0 THEN {st}
    ELSE LET order == FitOrder(st.order, st.num_to_alloc)
             got == GrantedOrder(st.free, order)
         IN IF budget = 0 \/ got < 0 THEN {st}
            ELSE UNION { AllocLoop(
                            [free |-> st.free \ BlockPages(b, got),
                             nosave |-> st.nosave \cup BlockPages(b, got),
                             copy |-> st.copy \cup BlockPages(b, got),
                             list |-> <<[page |-> b, order |-> got]>> \o st.list,
                             allocated |-> st.allocated + Pow2(got),
                             num_to_alloc |-> st.num_to_alloc - Pow2(got),
                             order |-> got],
                            budget - 1) : b \in FreeBlocks(st.free, got) }

\* suspend_allocate_extra_pagedir_memory(extra_pages_needed) on the memory m
\* ([free, nosave, copy, list, allocated]): the set of [st, ret] it may end with
suspend_allocate_extra_pagedir_memory(m, extra_pages_needed, budget) ==
    LET num_to_alloc == extra_pages_needed - m.allocated
        order0 == FirstOrder(num_to_alloc)
        st0 == [free |-> m.free, nosave |-> m.nosave,
                copy |-> m.copy, list |-> m.list,
                allocated |-> m.allocated,
                num_to_alloc |-> num_to_alloc, order |-> order0]
    IN IF num_to_alloc < 1 THEN {[st |-> st0, ret |-> 0]}
       ELSE {[st |-> e, ret |-> e.allocated] : e \in AllocLoop(st0, budget)}

\* lines 72-84: the loop over extras_list; each block loses Nosave on every
\* frame and goes back to the page allocator
RECURSIVE FreeLoop(_)
FreeLoop(m) ==
    IF m.list = <<>> THEN m
    ELSE LET this == Head(m.list)
         IN FreeLoop([m EXCEPT !.list = Tail(m.list),
                               !.nosave = @ \ BlockPages(this.page, this.order),
                               !.free = @ \cup BlockPages(this.page, this.order)])

\* suspend_free_extra_pagedir_memory on the memory m
suspend_free_extra_pagedir_memory(m) == [FreeLoop(m) EXCEPT !.allocated = 0]

(***************************************************************************)
(* suspend_copy_pageset1 (atomic_copy.c).                                  *)
(***************************************************************************)
\* content read through a frame index; a frame past max_pfn holds no page
\* of the image, its content is unknown
JUNK == 0 - 1
ReadFrame(m, idx) == IF idx \in Pfns THEN m[idx] ELSE JUNK

\* CopyWords as it would be with the two pointers of the word loop exchanged
CopyWordsExchanged(m, source_index, dest_index) ==
    IF source_index \in Pfns
    THEN [m EXCEPT ![source_index] = ReadFrame(m, dest_index)]
    ELSE m

\* the word loop of lines 226-229: the copy frame receives the original's words
CopyWords(m, source_index, dest_index) ==
    IF dest_index \in Pfns
    THEN [m EXCEPT ![dest_index] = ReadFrame(m, source_index)]
    ELSE m

\* lines 210-244: i-th round of the loop
RECURSIVE CopyLoop(_, _, _, _, _, _, _)
CopyLoop(i, size, st, source_index, dest_index, ps1, copy) ==
    IF i >= size THEN st
    ELSE CopyLoop(i + 1, size,
                  [mem |-> CopyWords(st.mem, source_index, dest_index),
                   pairs |-> Append(st.pairs, <<source_index, dest_index>>),
                   overrun |-> st.overrun \/ source_index \notin Pfns
                                          \/ dest_index \notin Pfns],
                  get_next_bit_on(ps1, source_index),
                  get_next_bit_on(copy, dest_index), ps1, copy)

suspend_copy_pageset1(m, ps1, copy, size) ==
    CopyLoop(0, size, [mem |-> m, pairs |-> <<>>, overrun |-> FALSE],
             get_next_bit_on(ps1, max_pfn + 1),
             get_next_bit_on(copy, max_pfn + 1), ps1, copy)

(***************************************************************************)
(* Each entry point leaves the variables of the others at rest.            *)
(***************************************************************************)
PrepareAtRest ==
    /\ nr_free_low = 0
    /\ nr_free_high = 0
    /\ pinned = [low |-> 0, high |-> 0]
    /\ storage_available = 0
    /\ main_storage_allocated = 0
    /\ header_space_allocated = 0
    /\ image_size_limit = 0
    /\ expected_compression_ratio = 100
    /\ header_bytes = 0
    /\ shrink_mode = "exact"
    /\ reclaim_from = "pageset1"
    /\ shrink_exact = TRUE
    /\ reclaimed = [ps1 |-> 0, ps2 |-> 0]
    /\ storage_exact = TRUE
    /\ freeze_failed = FALSE
    /\ calls = 0
    /\ lru_unlinked = FALSE
    /\ call_log = <<>>
    /\ order_log = <<>>

PagesAtRest ==
    /\ page_free = {}
    /\ page_nosave = {}
    /\ page_nosave_free = {}
    /\ page_resave = {}
    /\ unsaveable = {}
    /\ pfn_invalid = {}
    /\ pageset1_map = {}
    /\ pageset1_copy_map = {}
    /\ pageset2_map = {}
    /\ mem = [p \in Pfns |-> p]
    /\ mmap = [t \in Tasks |-> {}]
    /\ mmap_skipped = [t \in Tasks |-> {}]
    /\ lru = {}
    /\ env_steps = 0
    /\ num_nosave = 0
    /\ num_free = 0
    /\ extras_list = <<>>
    /\ extra_pd1_pages_used = 0
    /\ pre_copy = [mem |-> mem, ps1 |-> {}, copy |-> {}]
    /\ copy_done = FALSE
    /\ copy_overrun = FALSE
    /\ copy_pairs = <<>>

AtomicAtRest == atomic_log = <<>>

PbeAtRest ==
    /\ pbe_mem = <<>>
    /\ pbe_locals = <<>>
    /\ copied_back = <<>>

LoadAtRest ==
    /\ PbeAtRest
    /\ suspend_state = {}
    /\ ps2_pfn = max_pfn + 1
    /\ first_conflicting_page = <<>>
    /\ restore_pblist = <<>>
    /\ restore_highmem_pblist = <<>>
    /\ handed = <<>>

SigAtRest ==
    /\ sig_header = <<>>
    /\ header_dev_t = <<>>
    /\ headerblock = <<>>
    /\ sig_args = <<>>

StreamAtRest ==
    /\ stream_chains = <<>>
    /\ toi_writer_posn = <<>>
    /\ toi_writer_posn_save = <<>>
    /\ current_stream = 0
    /\ toi_writer_buffer_posn = 0
    /\ owner_requested = <<>>
    /\ header_used = <<>>
    /\ io_log = <<>>
    /\ bug_hit = FALSE

NlAtRest ==
    /\ user_helper_data = <<>>
    /\ nl_tasks = {}
    /\ task_nofreeze = {}
    /\ nl_err = 0
    /\ nl_last = <<>>

AttAtRest ==
    /\ att_pc = "at_rest"
    /\ att_cursor = 0
    /\ task_count = 0
    /\ attention_list = <<>>
    /\ att_next = 0
    /\ att_processed = <<>>

BioAtRest ==
    /\ bio_pc = "bio_rest"
    /\ io_state = <<>>
    /\ io_cleaned = <<>>
    /\ ioinfo_ready_for_cleanup = <<>>
    /\ toi_io_in_progress = 0
    /\ toi_io_to_cleanup = 0
    /\ waiting_on = 0
    /\ num_cleaned = 0

WqAtRest ==
    /\ bio_queue = <<>>
    /\ toi_bio_queue_mutex = 0
    /\ wq_thread = <<>>
    /\ wq_submitted = <<>>
    /\ pages_queued = 0
    /\ wq_failed = FALSE
    /\ wq_done = FALSE

RaAtRest ==
    /\ ra_pc = "ra_rest"
    /\ max_readahead = 1
    /\ readahead_index = 0 - 1
    /\ ra_submit_index = 0 - 1
    /\ last_result = 0
    /\ toi_readahead_flags = <<>>
    /\ toi_ra_pages = <<>>
    /\ ra_pending = {}
    /\ ra_unconsumed = {}
    /\ ra_storage_left = 0
    /\ ra_log = <<>>

UhdAtRest ==
    /\ uhds = <<>>
    /\ uhd_list = "NULL"

RunAtRest == suspend2_running = 0

MoreAtRest ==
    /\ RunAtRest
    /\ AttAtRest
    /\ BioAtRest
    /\ WqAtRest
    /\ RaAtRest
    /\ UhdAtRest

IoAtRest ==
    /\ SigAtRest
    /\ StreamAtRest
    /\ NlAtRest
    /\ MoreAtRest

SwapAtRest ==
    /\ swap_slots_free = {}
    /\ swap_info = <<>>
    /\ swapextents = [extents |-> <<>>, size |-> 0]
    /\ block_chain = <<>>
    /\ main_pages_allocated = 0
    /\ main_pages_requested = 0
    /\ header_pages_allocated = 0
    /\ chain_log = <<>>

(***************************************************************************)
(* The page-frame level: initial states.                                   *)
(***************************************************************************)
\* What a frame may be when the attempt begins:
\*   kernel    in use by the kernel, on no list and in no address space
\*   free      on the allocator's free lists
\*   user      mapped by the ordinary process, on an LRU list
\*   shared    mapped by the ordinary process and by the helper
\*   mine      mapped by the task that hibernates
\*   cache     on an LRU list, in no address space
\*   nosave    PageNosave set (a registered nosave region)
\*   reserved  saveable_page() returns NULL
\*   hole      pfn_valid() is false
KindsOf(p) ==
    IF p = 0 THEN {"free", "nosave", "hole"}
    ELSE IF p = max_pfn THEN {"free", "user", "kernel"}
    ELSE IF p % 2 = 1 THEN {"free", "user", "cache"}
    ELSE {"reserved", "shared", "mine"}

PageActionChoices == {{}, {"PAGESET2_FULL"}, {"NO_PAGESET2"}}

\* The debugging switches that __suspend_post_context_save reads
TestActionChoices == {{}, {"TEST_BIO"}, {"TEST_FILTER_SPEED"}}

OfKind(kind, ks) == {p \in Pfns : kind[p] \in ks}

InitPages ==
    /\ high_start = max_pfn
    /\ pc = "pg_start"
    /\ toi_result = {}
    /\ toi_action \in PageActionChoices
    /\ \E kind \in [Pfns -> {"kernel", "free", "user", "shared", "mine", "cache",
                             "nosave", "reserved", "hole"}] :
          /\ \A p \in Pfns : kind[p] \in KindsOf(p)
          /\ page_free = OfKind(kind, {"free"})
          /\ page_nosave = OfKind(kind, {"nosave"})
          /\ unsaveable = OfKind(kind, {"reserved"})
          /\ pfn_invalid = OfKind(kind, {"hole"})
          /\ mmap = [t \in Tasks |->
                        IF t = "proc" THEN OfKind(kind, {"user", "shared"})
                        ELSE IF t = "helper" THEN OfKind(kind, {"shared"})
                        ELSE OfKind(kind, {"mine"})]
          /\ lru = OfKind(kind, {"user", "shared", "mine", "cache"})
    /\ mmap_skipped = [t \in Tasks |-> {}]
    /\ page_nosave_free = {}
    /\ page_resave = {}
    /\ pageset1_map = {}
    /\ pageset1_copy_map = {}
    /\ pageset2_map = {}
    /\ mem = [p \in Pfns |-> p]
    /\ env_steps = 0
    /\ pagedir1 = [size |-> 0, highmem |-> 0]
    /\ pagedir2 = [size |-> 0, highmem |-> 0]
    /\ num_nosave = 0
    /\ num_free = 0
    /\ extra_pages_allocated = 0
    /\ extras_list = <<>>
    /\ extra_pd1_pages_allowance \in {0, MaxEnvSteps}
    /\ extra_pd1_pages_used = 0
    /\ pre_copy = [mem |-> mem, ps1 |-> {}, copy |-> {}]
    /\ copy_done = FALSE
    /\ copy_overrun = FALSE
    /\ copy_pairs = <<>>
    /\ tries = 1
    /\ retval = 0
    /\ PrepareAtRest
    /\ AtomicAtRest
    /\ LoadAtRest
    /\ SwapAtRest
    /\ IoAtRest

(***************************************************************************)
(* The page-frame level: actions.                                          *)
(***************************************************************************)
\* What the rest of the kernel may have done to memory since the last
\* classification pass: nothing, or one of
\*   - a free frame was allocated (a driver, a thawed thread),
\*   - a frame in use was freed (reclaim, an exiting mapping),
\*   - a pageset2 page was flagged for resaving.
\* Each is [free, mmap, lru, resave, steps].
EnvNow == [free |-> page_free, mmap |-> mmap, lru |-> lru,
           resave |-> page_resave, steps |-> env_steps]

EnvOutcomesOf(now, nosave, ps2) ==
    {now} \cup
    (IF now.steps >= MaxEnvSteps THEN {}
     ELSE {[now EXCEPT !.free = @ \ {p}, !.steps = @ + 1] : p \in now.free}
          \cup
          {[now EXCEPT !.free = @ \cup {p},
                       !.mmap = [t \in Tasks |-> now.mmap[t] \ {p}],
                       !.lru = @ \ {p},
                       !.steps = @ + 1] :
              p \in Pfns \ (now.free \cup nosave \cup unsaveable \cup pfn_invalid)}
          \cup
          {[now EXCEPT !.resave = @ \cup {p}, !.steps = @ + 1] :
              p \in ps2 \ now.resave})

EnvOutcomes == EnvOutcomesOf(EnvNow, page_nosave, pageset2_map)

\* suspend_recalculate_image_contents(atomic_copy) on the memory e, with the
\* maps [copy, ps2, nosave, result] as they are when it is called
suspend_recalculate_image_contents(e, maps, atomic_copy, kmalloc_ok) ==
    LET copy0 == IF atomic_copy THEN maps.copy ELSE maps.copy \ maps.ps2
        m == IF atomic_copy
             THEN [ps1 |-> {}, ps2 |-> maps.ps2, result |-> maps.result]
             ELSE suspend_mark_pages_for_pageset2({}, maps.ps2, maps.result,
                                                  e.mmap, e.lru, kmalloc_ok)
        f == flag_image_pages(e.free, maps.nosave, m.ps2, e.resave, copy0)
    IN [ps1 |-> f.ps1, copy |-> f.copy, ps2 |-> m.ps2, result |-> m.result,
        pd1 |-> [size |-> f.pd1_size, highmem |-> f.pd1_high],
        pd2 |-> [size |-> f.pd2_size, highmem |-> f.pd2_high],
        num_nosave |-> f.num_nosave, num_free |-> f.num_free,
        nsfree |-> generate_free_page_map(e.free)]

MapsNow == [copy |-> pageset1_copy_map, ps2 |-> pageset2_map,
            nosave |-> page_nosave, result |-> toi_result]

ApplyRecalc(r) ==
    /\ pageset1_map' = r.ps1
    /\ pageset1_copy_map' = r.copy
    /\ pageset2_map' = r.ps2
    /\ page_nosave_free' = r.nsfree
    /\ pagedir1' = r.pd1
    /\ pagedir2' = r.pd2
    /\ num_nosave' = r.num_nosave
    /\ num_free' = r.num_free
    /\ toi_result' = r.result

\* eat_memory as the page frames see it: reclaim and the thawed threads have
\* changed memory, and the image is recalculated (lines 647 and 712)
EatMemoryPages ==
    /\ pc \in {"pg_start", "pg_updated"}
    /\ tries <= MAX_TRIES
    /\ ~test_result_state(toi_result, "ABORTED")
    /\ \E e \in EnvOutcomes : \E kmalloc_ok \in BOOLEAN :
       \E r \in {suspend_recalculate_image_contents(e, MapsNow, FALSE, kmalloc_ok)} :
             /\ page_free' = e.free
             /\ mmap' = e.mmap
             /\ UNCHANGED mmap_skipped
             /\ lru' = e.lru
             /\ page_resave' = e.resave
             /\ env_steps' = e.steps
             /\ ApplyRecalc(r)
             /\ pc' = IF test_result_state(r.result, "ABORTED") THEN "pg_aborted"
                      ELSE "pg_eaten"
    /\ UNCHANGED <<toi_action, page_nosave, unsaveable, pfn_invalid, mem, tries,
                   extra_pages_allocated, extras_list, extra_pd1_pages_allowance,
                   extra_pd1_pages_used, hist_vars, prep_vars, atomic_log,
                   load_vars, swap_vars, io_vars>>

\* lines 548-559 of update_image: the outcomes [st, ret] of asking for the
\* extra pages, r1 being the image as just recalculated
ExtraPagesGrants(r1) ==
    LET wanted == r1.pd1.size + extra_pd1_pages_allowance - get_lowmem_size(r1.pd2)
        m1 == [free |-> page_free, nosave |-> page_nosave, copy |-> r1.copy,
               list |-> extras_list, allocated |-> extra_pages_allocated]
    IN IF wanted > extra_pages_allocated
       THEN UNION {suspend_allocate_extra_pagedir_memory(m1, wanted, budget) :
                      budget \in 0..wanted}
       ELSE {[st |-> m1, ret |-> retval]}

\* update_image as the page frames see it: the image is recalculated, the
\* extra pages for the atomic copy are asked for (lines 548-559), and the
\* kernel threads are thawed (line 561) and the image is recalculated again
\* (line 594).
UpdateImagePages ==
    /\ pc = "pg_eaten"
    /\ \E kmalloc_ok \in BOOLEAN :
       \E r1 \in {suspend_recalculate_image_contents(EnvNow, MapsNow, FALSE,
                                                     kmalloc_ok)} :
       \E g \in ExtraPagesGrants(r1) :
       \E e \in EnvOutcomesOf([EnvNow EXCEPT !.free = g.st.free], g.st.nosave,
                              r1.ps2) :
       \E r2 \in {suspend_recalculate_image_contents(
                        e, [copy |-> g.st.copy, ps2 |-> r1.ps2,
                            nosave |-> g.st.nosave, result |-> r1.result],
                        FALSE, TRUE)} :
             /\ page_free' = e.free
             /\ mmap' = e.mmap
             /\ UNCHANGED mmap_skipped
             /\ lru' = e.lru
             /\ page_resave' = e.resave
             /\ env_steps' = e.steps
             /\ page_nosave' = g.st.nosave
             /\ extras_list' = g.st.list
             /\ extra_pages_allocated' = g.st.allocated
             /\ retval' = g.ret
             /\ ApplyRecalc(r2)
             /\ pc' = IF test_result_state(r2.result, "ABORTED") THEN "pg_aborted"
                      ELSE "pg_updated"
    /\ tries' = tries + 1
    /\ UNCHANGED <<toi_action, unsaveable, pfn_invalid, mem,
                   extra_pd1_pages_allowance, extra_pd1_pages_used, pre_copy,
                   copy_done, copy_overrun, copy_pairs, prep_vars, atomic_log,
                   load_vars, swap_vars, io_vars>>

\* AllowanceExceeded as it would be with >= for >
AllowanceExceededOffByOne(used, allowance) == used >= allowance

\* line 267: if (extra_pd1_pages_used > extra_pd1_pages_allowance)
AllowanceExceeded(used, allowance) == used > allowance

\* __suspend_post_context_save (atomic_copy.c), on memory as the drivers'
\* suspend has left it and with the debugging switches as they are set when
\* it runs
PostContextSave ==
    /\ pc = "pg_updated"
    /\ ~test_result_state(toi_result, "ABORTED")
    /\ \E e \in EnvOutcomes : \E switches \in TestActionChoices :
       \E r \in {suspend_recalculate_image_contents(e, MapsNow, TRUE, TRUE)} :
       LET old_ps1_size == pagedir1.size
           used == r.pd1.size - old_ps1_size
       IN /\ toi_action' = toi_action \cup switches
          /\ page_free' = e.free
          /\ mmap' = e.mmap
          /\ UNCHANGED mmap_skipped
          /\ lru' = e.lru
          /\ page_resave' = e.resave
          /\ env_steps' = e.steps
          /\ pageset1_map' = r.ps1
          /\ pageset1_copy_map' = r.copy
          /\ pageset2_map' = r.ps2
          /\ page_nosave_free' = r.nsfree
          /\ pagedir1' = r.pd1
          /\ pagedir2' = r.pd2
          /\ num_nosave' = r.num_nosave
          /\ num_free' = r.num_free
          /\ extra_pd1_pages_used' = used
          /\ IF AllowanceExceeded(used, extra_pd1_pages_allowance)
             THEN /\ toi_result' = set_abort_result(r.result,
                                        "EXTRA_PAGES_ALLOW_TOO_SMALL")
                  /\ retval' = 0 - 1
                  /\ UNCHANGED <<mem, pre_copy, copy_done, copy_overrun, copy_pairs>>
             ELSE /\ toi_result' = r.result
                  /\ retval' = 0
                  /\ IF ~test_action_state(toi_action', "TEST_FILTER_SPEED")
                        /\ ~test_action_state(toi_action', "TEST_BIO")
                     THEN \E c \in {suspend_copy_pageset1(mem, r.ps1, r.copy,
                                                          r.pd1.size)} :
                          /\ mem' = c.mem
                          /\ copy_overrun' = c.overrun
                          /\ copy_pairs' = c.pairs
                          /\ copy_done' = TRUE
                          /\ pre_copy' = [mem |-> mem, ps1 |-> r.ps1, copy |-> r.copy]
                     ELSE UNCHANGED <<mem, pre_copy, copy_done, copy_overrun,
                                      copy_pairs>>
    /\ pc' = "pg_done"
    /\ UNCHANGED <<page_nosave, unsaveable, pfn_invalid, tries,
                   extra_pages_allocated, extras_list, extra_pd1_pages_allowance,
                   prep_vars, atomic_log, load_vars, swap_vars, io_vars>>

\* suspend_free_extra_pagedir_memory, called when the attempt is over
FreeExtraPagedirMemory ==
    /\ pc \in {"pg_aborted", "pg_done"}
    /\ \E m \in {suspend_free_extra_pagedir_memory(
                     [free |-> page_free, nosave |-> page_nosave,
                      copy |-> pageset1_copy_map, list |-> extras_list,
                      allocated |-> extra_pages_allocated])} :
          /\ page_free' = m.free
          /\ page_nosave' = m.nosave
          /\ extras_list' = m.list
          /\ extra_pages_allocated' = m.allocated
    /\ pc' = "pg_freed"
    /\ UNCHANGED <<toi_result, toi_action, tries, page_nosave_free, page_resave,
                   unsaveable, pfn_invalid, pageset1_map, pageset1_copy_map,
                   pageset2_map, mem, mmap, mmap_skipped, lru, env_steps, pagedir1, pagedir2,
                   num_nosave, num_free, extra_pd1_pages_allowance,
                   extra_pd1_pages_used, hist_vars, prep_vars, atomic_log,
                   load_vars, swap_vars, io_vars>>

NextPages ==
    \/ EatMemoryPages
    \/ UpdateImagePages
    \/ PostContextSave
    \/ FreeExtraPagedirMemory

SpecPages == InitPages /\ [][NextPages]_vars

(***************************************************************************)
(* The counter level: the sizes image_not_ready() weighs (prepare_image.c).*)
(***************************************************************************)
\* Constants of the kernel that the functions below use
PAGE_SIZE == 4096
MIN_FREE_RAM == 100
MIN_EXTRA_PAGES_ALLOWANCE == 500
suspend_memory_for_modules == 20

\* zone_idx 0 .. MAX_NR_ZONES - 1: ZONE_DMA, ZONE_NORMAL, ZONE_HIGHMEM, each
\* with whether it is highmem
ZoneTypes == <<FALSE, FALSE, TRUE>>
MAX_NR_ZONES == Len(ZoneTypes)

\* The sizes as a record, so that a handler can carry them through its steps
CountsNow == [pd1 |-> pagedir1, pd2 |-> pagedir2,
              free_low |-> nr_free_low, free_high |-> nr_free_high,
              extras |-> extra_pages_allocated,
              header |-> header_space_allocated,
              main |-> main_storage_allocated]

main_storage_needed(c, use_ecr, ignore_extra_pd1_allow) ==
    CDiv((c.pd1.size + c.pd2.size
            + (IF ignore_extra_pd1_allow THEN 0 ELSE extra_pd1_pages_allowance))
         * (IF use_ecr THEN expected_compression_ratio ELSE 100), 100)

header_storage_needed == DIV_ROUND_UP(header_bytes, PAGE_SIZE)

highpages_ps1_to_free(c) ==
    Max(0, DIV_ROUND_UP(get_highmem_size(c.pd1) - get_highmem_size(c.pd2), 2)
           - c.free_high)

\* lowpages_ps1_to_free as it would be if a freed page counted for four
lowpages_ps1_to_free_by_four(c) ==
    Max(0, DIV_ROUND_UP(get_lowmem_size(c.pd1) + extra_pd1_pages_allowance
                          + MIN_FREE_RAM + suspend_memory_for_modules
                          - get_lowmem_size(c.pd2) - c.free_low - c.extras, 4))

lowpages_ps1_to_free(c) ==
    Max(0, DIV_ROUND_UP(get_lowmem_size(c.pd1) + extra_pd1_pages_allowance
                          + MIN_FREE_RAM + suspend_memory_for_modules
                          - get_lowmem_size(c.pd2) - c.free_low - c.extras, 2))

current_image_size(c) == c.pd1.size + c.pd2.size + c.header

any_to_free(c, use_image_size_limit) ==
    LET user_limit == IF use_image_size_limit /\ image_size_limit > 0
                      THEN Max(0, current_image_size(c)
                                    - image_size_limit * Pow2(8))
                      ELSE 0
        storage_limit == Max(0, main_storage_needed(c, TRUE, TRUE)
                                   - storage_available)
    IN Max(user_limit, storage_limit)

amount_needed(c, use_image_size_limit) ==
    Max(highpages_ps1_to_free(c) + lowpages_ps1_to_free(c),
        any_to_free(c, use_image_size_limit))

\* image_not_ready as it would be without the test of the header space
image_not_ready_without_header(c, use_image_size_limit) ==
    \/ amount_needed(c, use_image_size_limit) > 0
    \/ c.main < main_storage_needed(c, TRUE, TRUE)

image_not_ready(c, use_image_size_limit) ==
    \/ amount_needed(c, use_image_size_limit) > 0
    \/ c.header < header_storage_needed
    \/ c.main < main_storage_needed(c, TRUE, TRUE)

(***************************************************************************)
(* Reclaim at the counter level.                                           *)
(***************************************************************************)
\* the pages shrink_one_zone(zone, nr_pages) tries to free
ShrinkTarget(nr_pages) ==
    IF shrink_mode = "exact" THEN nr_pages
    ELSE IF shrink_mode = "half" THEN nr_pages \div 2
    ELSE 0

\* Remove d1 pageset1 and d2 pageset2 pages of a zone type; they become free
TakePages(c, high, d1, d2) ==
    [c EXCEPT !.pd1 = [size |-> @.size - d1,
                       highmem |-> IF high THEN @.highmem - d1 ELSE @.highmem],
              !.pd2 = [size |-> @.size - d2,
                       highmem |-> IF high THEN @.highmem - d2 ELSE @.highmem],
              !.free_low = IF high THEN @ ELSE @ + d1 + d2,
              !.free_high = IF high THEN @ + d1 + d2 ELSE @]

\* shrink_one_zone(zone, nr_pages) followed by the recalculation: the pages
\* come from the pageset reclaim_from names first, never from the pinned ones
shrink_one_zone(c, high, nr_pages) ==
    LET f == ShrinkTarget(nr_pages)
        have1 == IF high THEN get_highmem_size(c.pd1) - pinned.high
                 ELSE get_lowmem_size(c.pd1) - pinned.low
        have2 == IF high THEN get_highmem_size(c.pd2) ELSE get_lowmem_size(c.pd2)
        d1 == IF reclaim_from = "pageset1" THEN Min(f, have1)
              ELSE Min(f - Min(f, have2), have1)
        d2 == IF reclaim_from = "pageset1" THEN Min(f - Min(f, have1), have2)
              ELSE Min(f, have2)
    IN [c |-> TakePages(c, high, d1, d2), exact |-> d1 + d2 = nr_pages,
        ps1 |-> d1, ps2 |-> d2]

\* An entry of call_log: the call, and for shrink_one_zone the class of its
\* zone, what that class still had to free and the pages asked for
Call(call, high, deficit, nr_pages) ==
    <<[call |-> call, high |-> high, deficit |-> deficit, nr_pages |-> nr_pages]>>

\* The test that leaves the zone loop, as it would be if it fired at zero
zone_loop_breaks_at_zero(zone_type_free) == zone_type_free <= 0

\* eat_memory, lines 680-681 and 698-699: the test that leaves the zone loop
zone_loop_breaks(zone_type_free) == zone_type_free < 0

\* eat_memory, lines 675-701: one zone of each type, in zone_idx order
RECURSIVE ShrinkZones(_, _)
ShrinkZones(zone_idx, st) ==
    IF zone_idx > MAX_NR_ZONES THEN st
    ELSE LET high == ZoneTypes[zone_idx]
             zone_type_free == Max(IF high THEN highpages_ps1_to_free(st.c)
                                   ELSE lowpages_ps1_to_free(st.c),
                                   amount_needed(st.c, TRUE))
             class_deficit == IF high THEN highpages_ps1_to_free(st.c)
                              ELSE lowpages_ps1_to_free(st.c)
             r == shrink_one_zone(st.c, high, zone_type_free)
         IN IF zone_loop_breaks(zone_type_free) THEN st
            ELSE ShrinkZones(zone_idx + 1,
                             [c |-> r.c, exact |-> st.exact /\ r.exact,
                              ps1 |-> st.ps1 + r.ps1, ps2 |-> st.ps2 + r.ps2,
                              log |-> st.log \o Call("shrink_one_zone", high,
                                                     class_deficit,
                                                     zone_type_free)])

\* drop_pagecache(): page cache pages, lowmem pageset1 here, become free
drop_pagecache(c, dropped) == TakePages(c, FALSE, dropped, 0)

(***************************************************************************)
(* The counter level: initial states.                                      *)
(***************************************************************************)
\* Memory when the attempt begins, per zone type: pageset1 pages, of which
\* pinned cannot be reclaimed, pageset2 pages and free pages
LowChoices == {[ps1 |-> 1000, pinned |-> 100, ps2 |-> 3000, free |-> 2000],
               [ps1 |-> 3000, pinned |-> 500, ps2 |-> 3000, free |-> 100]}
HighChoices == {[ps1 |-> 0, pinned |-> 0, ps2 |-> 0, free |-> 0],
                [ps1 |-> 400, pinned |-> 50, ps2 |-> 100, free |-> 50],
                [ps1 |-> 100, pinned |-> 0, ps2 |-> 2000, free |-> 300]}
StorageChoices == {0, 20, 2000, 10000}
ImageSizeLimitChoices == {0 - 2, 0 - 1, 0, 1}
CompressionChoices == {50, 100}

InitPrepare ==
    /\ high_start = max_pfn
    /\ pc = "prep_start"
    /\ toi_result = {}
    /\ toi_action = {}
    /\ tries = 1
    /\ retval = 0
    /\ \E lo \in LowChoices : \E hi \in HighChoices :
          /\ pagedir1 = [size |-> lo.ps1 + hi.ps1, highmem |-> hi.ps1]
          /\ pagedir2 = [size |-> lo.ps2 + hi.ps2, highmem |-> hi.ps2]
          /\ nr_free_low = lo.free
          /\ nr_free_high = hi.free
          /\ pinned = [low |-> lo.pinned, high |-> hi.pinned]
    /\ extra_pages_allocated = 0
    /\ extra_pd1_pages_allowance \in {0, MIN_EXTRA_PAGES_ALLOWANCE}
    /\ storage_available \in StorageChoices
    /\ main_storage_allocated = 0
    /\ header_space_allocated = 0
    /\ image_size_limit \in ImageSizeLimitChoices
    /\ expected_compression_ratio \in CompressionChoices
    /\ header_bytes = 2 * PAGE_SIZE + 1
    /\ shrink_mode \in {"exact", "half", "none"}
    /\ reclaim_from \in {"pageset1", "pageset2"}
    /\ shrink_exact = TRUE
    /\ reclaimed = [ps1 |-> 0, ps2 |-> 0]
    /\ storage_exact = TRUE
    /\ freeze_failed = FALSE
    /\ calls = 0
    /\ lru_unlinked = FALSE
    /\ call_log = <<>>
    /\ order_log = <<>>
    /\ PagesAtRest
    /\ AtomicAtRest
    /\ LoadAtRest
    /\ SwapAtRest
    /\ IoAtRest

(***************************************************************************)
(* The counter level: suspend_prepare_image and what it calls.             *)
(***************************************************************************)
ApplyCounts(c) ==
    /\ pagedir1' = c.pd1
    /\ pagedir2' = c.pd2
    /\ nr_free_low' = c.free_low
    /\ nr_free_high' = c.free_high
    /\ extra_pages_allocated' = c.extras
    /\ header_space_allocated' = c.header
    /\ main_storage_allocated' = c.main

\* abort_suspend(reason, ...): records the reason unless the attempt has
\* been aborted already
abort_suspend(word, bit) ==
    IF test_result_state(word, "ABORTED") THEN word ELSE set_abort_result(word, bit)

\* suspend_prepare_image, lines 740-759: up to the loop
PrepareStart ==
    /\ pc = "prep_start"
    /\ header_space_allocated' = 0
    /\ main_storage_allocated' = 0
    /\ order_log' = order_log \o <<"thaw_processes", "freeze_processes">>
    /\ \E freeze_ok \in BOOLEAN : \E drivers_use \in {0 - 10, 30} :
          IF ~freeze_ok
          THEN \* attempt_to_freeze
               /\ toi_result' = set_abort_result(toi_result, "FREEZING_FAILED")
               /\ freeze_failed' = TRUE
               /\ retval' = 1
               /\ pc' = "prep_done"
               /\ UNCHANGED extra_pd1_pages_allowance
          ELSE /\ extra_pd1_pages_allowance' =
                     IF extra_pd1_pages_allowance = 0
                     THEN \* get_extra_pd1_allowance
                          Max(drivers_use + MIN_EXTRA_PAGES_ALLOWANCE,
                              MIN_EXTRA_PAGES_ALLOWANCE)
                     ELSE extra_pd1_pages_allowance
               /\ UNCHANGED freeze_failed
               /\ IF storage_available = 0
                  THEN /\ toi_result' = set_abort_result(toi_result,
                                                         "NOSTORAGE_AVAILABLE")
                       /\ retval' = 1
                       /\ pc' = "prep_done"
                  ELSE /\ pc' = "prep_eat"
                       /\ UNCHANGED <<toi_result, retval>>
    /\ UNCHANGED <<toi_action, tries, page_vars, pagedir1, pagedir2, num_nosave,
                   num_free, extra_pages_allocated, extras_list,
                   extra_pd1_pages_used, pre_copy, copy_done, copy_overrun,
                   copy_pairs, atomic_log, load_vars, swap_vars, io_vars,
                   nr_free_low, nr_free_high, pinned, storage_available,
                   image_size_limit, expected_compression_ratio, header_bytes,
                   shrink_mode, reclaim_from, shrink_exact, reclaimed,
                   storage_exact, calls, lru_unlinked, call_log>>

\* eat_memory, lines 709-714, as it would be if the pages were never
\* counted again after the zones were shrunk
did_eat_memory_forgotten(limit, shrunk) == FALSE

\* eat_memory: did_eat_memory, set at lines 660 and 689
did_eat_memory(limit, shrunk) == limit = 0 - 2 \/ shrunk

\* eat_memory, lines 687-691: each zone shrunk is followed by a new count
RECURSIVE ShrinkOrder(_)
ShrinkOrder(log) ==
    IF log = <<>> THEN <<>>
    ELSE <<"shrink_one_zone", "suspend_recalculate_image_contents">>
         \o ShrinkOrder(Tail(log))

\* eat_memory, lines 646-714: what it does to the tasks and the counts, in
\* order
eat_memory_order(limit, refused, shrinks, shrunk_log) ==
    <<"suspend_recalculate_image_contents">>
    \o (IF refused THEN <<>>
        ELSE (IF limit = 0 - 2
              THEN <<"drop_pagecache", "suspend_recalculate_image_contents">>
              ELSE <<>>)
             \o (IF shrinks
                 THEN <<"thaw_kernel_threads">> \o ShrinkOrder(shrunk_log)
                      \o <<"freeze_processes">>
                 ELSE <<>>)
             \o (IF did_eat_memory(limit, shrunk_log # <<>>)
                 THEN <<"suspend_recalculate_image_contents">>
                 ELSE <<>>))

\* update_image, lines 546-594: what it does to the tasks and the counts, in
\* order
update_image_order(returns_early) ==
    <<"suspend_recalculate_image_contents">>
    \o (IF returns_early THEN <<>>
        ELSE <<"thaw_kernel_threads", "freeze_processes",
               "suspend_recalculate_image_contents">>)

\* eat_memory, lines 650-655, as it would be if the policy never refused
would_eat_memory_ignored(limit, amount_wanted) == FALSE

\* eat_memory, lines 650-655: case -1 with something to free
would_eat_memory(limit, amount_wanted) == limit = 0 - 1 /\ amount_wanted > 0

\* eat_memory, lines 666-667: whether the zones are shrunk
eat_memory_shrinks(amount_wanted, word, limit) ==
    amount_wanted > 0 /\ ~test_result_state(word, "ABORTED") /\ limit # 0 - 1

\* eat_memory
EatMemory ==
    /\ pc = "prep_eat"
    /\ calls' = calls + 1
    /\ \E freeze_ok \in BOOLEAN :
       \E dropped \in {0, (get_lowmem_size(pagedir1) - pinned.low) \div 2} :
       LET c0 == CountsNow
           entered == Call("eat_memory", FALSE, 0, amount_needed(c0, TRUE))
       IN IF would_eat_memory(image_size_limit, amount_needed(c0, TRUE))
          THEN /\ toi_result' = set_abort_result(toi_result, "WOULD_EAT_MEMORY")
               /\ call_log' = call_log \o entered
               /\ order_log' = order_log
                                 \o eat_memory_order(image_size_limit, TRUE,
                                                     FALSE, <<>>)
               /\ UNCHANGED <<pagedir1, pagedir2, nr_free_low, nr_free_high,
                              extra_pages_allocated, header_space_allocated,
                              main_storage_allocated, shrink_exact,
                              reclaimed, freeze_failed>>
          ELSE \E c1 \in {IF image_size_limit = 0 - 2
                          THEN drop_pagecache(c0, dropped) ELSE c0} :
               LET shrinks == eat_memory_shrinks(amount_needed(c1, TRUE),
                                                 toi_result, image_size_limit)
                   dropping == IF image_size_limit = 0 - 2
                               THEN Call("drop_pagecache", FALSE, 0, 0)
                               ELSE <<>>
               IN \E sh \in {IF shrinks
                             THEN ShrinkZones(1, [c |-> c1, exact |-> TRUE,
                                                  ps1 |-> 0, ps2 |-> 0,
                                                  log |-> <<>>])
                             ELSE [c |-> c1, exact |-> TRUE,
                                   ps1 |-> 0, ps2 |-> 0, log |-> <<>>]} :
                     /\ ApplyCounts(sh.c)
                     /\ call_log' =
                           call_log \o entered \o dropping
                           \o (IF shrinks
                               THEN Call("thaw_kernel_threads", FALSE, 0, 0)
                                    \o sh.log
                                    \o Call("freeze_processes", FALSE, 0, 0)
                               ELSE <<>>)
                     /\ order_log' = order_log
                                       \o eat_memory_order(image_size_limit,
                                                           FALSE, shrinks, sh.log)
                     /\ shrink_exact' = (shrink_exact /\ sh.exact)
                     /\ reclaimed' = [ps1 |-> reclaimed.ps1 + sh.ps1,
                                       ps2 |-> reclaimed.ps2 + sh.ps2]
                     /\ IF shrinks /\ ~freeze_ok
                        THEN /\ toi_result' = set_abort_result(toi_result,
                                                               "FREEZING_FAILED")
                             /\ freeze_failed' = TRUE
                        ELSE UNCHANGED <<toi_result, freeze_failed>>
    /\ pc' = IF test_result_state(toi_result', "ABORTED") THEN "prep_finish"
             ELSE "prep_update"
    /\ UNCHANGED <<toi_action, tries, page_vars, num_nosave, num_free, extras_list,
                   extra_pd1_pages_allowance, extra_pd1_pages_used, hist_vars,
                   atomic_log, load_vars, swap_vars, io_vars, pinned, storage_available,
                   image_size_limit,
                   expected_compression_ratio, header_bytes, shrink_mode,
                   reclaim_from, storage_exact, lru_unlinked>>

\* prepare_loop_continues as it would be without the test of the abort flag
prepare_loop_continues_unaborted(not_ready, t, word) ==
    not_ready /\ t <= MAX_TRIES

\* prepare_loop_continues as it would be without the bound on tries
prepare_loop_continues_unbounded(not_ready, t, word) ==
    not_ready /\ ~test_result_state(word, "ABORTED")

\* lines 768-770: while (image_not_ready(1) && tries <= MAX_TRIES &&
\*                       !test_result_state(SUSPEND_ABORTED))
prepare_loop_continues(not_ready, t, word) ==
    not_ready /\ t <= MAX_TRIES /\ ~test_result_state(word, "ABORTED")

\* update_image, line 553: the test that guards the message about the
\* extra pages
extra_pages_message_due(wanted, got) == wanted < got

\* update_image, then tries++ and the test of the loop
UpdateImage ==
    /\ pc = "prep_update"
    /\ calls' = calls + 1
    /\ tries' = tries + 1
    /\ \E freeze_ok \in BOOLEAN : \E header_ok \in BOOLEAN :
       \E storage_full \in BOOLEAN : \E extras_full \in BOOLEAN :
       LET c0 == CountsNow
           wanted == c0.pd1.size + extra_pd1_pages_allowance
                     - get_lowmem_size(c0.pd2)
           asks == wanted > c0.extras
           k == IF asks /\ extras_full THEN Min(wanted - c0.extras, c0.free_low)
                ELSE 0
           got == c0.extras + k
           c1 == [c0 EXCEPT !.extras = got, !.free_low = @ - k]
           asked == Min(storage_available, main_storage_needed(c1, FALSE, FALSE))
           c2 == [c1 EXCEPT !.main = IF storage_full THEN asked ELSE @,
                            !.header = IF header_ok THEN header_storage_needed
                                       ELSE @]
           allocating == IF asks
                         THEN Call("suspend_allocate_extra_pagedir_memory",
                                   FALSE, wanted - got, wanted)
                         ELSE <<>>
       IN IF asks /\ extra_pages_message_due(wanted, got)
          THEN \* "Want %d extra pages for pageset1, got %d."
               /\ ApplyCounts(c1)
               /\ call_log' = call_log \o allocating
                                \o Call("suspend_message", FALSE, wanted - got,
                                        wanted)
               /\ order_log' = order_log \o update_image_order(TRUE)
               /\ UNCHANGED <<toi_result, freeze_failed, storage_exact>>
               /\ pc' = IF prepare_loop_continues(image_not_ready(c1, TRUE),
                                                  tries', toi_result')
                        THEN "prep_eat" ELSE "prep_finish"
          ELSE /\ ApplyCounts(c2)
               /\ call_log' = call_log \o allocating
                                \o Call("thaw_kernel_threads", FALSE, 0, 0)
                                \o Call("freeze_processes", FALSE, 0, 0)
               /\ order_log' = order_log \o update_image_order(FALSE)
               /\ storage_exact' = (storage_exact /\ storage_full /\ header_ok)
               /\ IF ~freeze_ok
                  THEN /\ toi_result' = set_abort_result(toi_result,
                                                         "FREEZING_FAILED")
                       /\ freeze_failed' = TRUE
                  ELSE UNCHANGED <<toi_result, freeze_failed>>
               /\ pc' = IF prepare_loop_continues(image_not_ready(c2, TRUE),
                                                  tries', toi_result')
                        THEN "prep_eat" ELSE "prep_finish"
    /\ UNCHANGED <<toi_action, page_vars, num_nosave, num_free, extras_list,
                   extra_pd1_pages_allowance, extra_pd1_pages_used, hist_vars,
                   atomic_log, load_vars, swap_vars, io_vars, pinned, storage_available,
                   image_size_limit,
                   expected_compression_ratio, header_bytes, shrink_mode,
                   reclaim_from, shrink_exact, reclaimed, lru_unlinked>>

\* unlinks_lru_lists as it would be without the test of the abort flag
unlinks_lru_lists_when_aborted(word, result) == ~result

\* suspend_prepare_image, lines 774-782: whether unlink_lru_lists is called
unlinks_lru_lists(word, result) ==
    ~test_result_state(word, "ABORTED") /\ ~result

\* suspend_prepare_image, lines 772-785: the verdict
PrepareFinish ==
    /\ pc = "prep_finish"
    /\ order_log' = order_log \o <<"image_not_ready">>
    /\ LET result == image_not_ready(CountsNow, FALSE)
       IN /\ retval' = IF result THEN 1 ELSE 0
          /\ toi_result' = IF ~test_result_state(toi_result, "ABORTED") /\ result
                           THEN abort_suspend(toi_result,
                                              "UNABLE_TO_PREPARE_IMAGE")
                           ELSE toi_result
          /\ IF unlinks_lru_lists(toi_result, result)
             THEN /\ lru_unlinked' = TRUE
                  /\ call_log' = call_log
                                    \o Call("unlink_lru_lists", FALSE, 0, 0)
             ELSE UNCHANGED <<lru_unlinked, call_log>>
    /\ pc' = "prep_done"
    /\ UNCHANGED <<toi_action, tries, page_vars, pd_vars, pre_copy, copy_done,
                   copy_overrun, copy_pairs, atomic_log, load_vars, swap_vars, io_vars,
                   nr_free_low, nr_free_high, pinned, storage_available,
                   main_storage_allocated, header_space_allocated,
                   image_size_limit, expected_compression_ratio, header_bytes,
                   shrink_mode, reclaim_from, shrink_exact, reclaimed,
                   storage_exact, freeze_failed, calls>>

NextPrepare ==
    \/ PrepareStart
    \/ EatMemory
    \/ UpdateImage
    \/ PrepareFinish

SpecPrepare == InitPrepare /\ [][NextPrepare]_vars

(***************************************************************************)
(* Going atomic: suspend2_go_atomic and suspend2_end_atomic (atomic_copy.c).*)
(* atomic_log lists the calls made, each with whether it succeeded.        *)
(***************************************************************************)
Did(call) == <<[call |-> call, ok |-> TRUE]>>
Refused(call) == <<[call |-> call, ok |-> FALSE]>>

\* The cases of the switch in suspend2_end_atomic, in the order written
AtomicStages == <<"ATOMIC_ALL_STEPS", "ATOMIC_STEP_IRQS",
                  "ATOMIC_STEP_CPU_HOTPLUG", "ATOMIC_STEP_DEVICE_RESUME",
                  "ATOMIC_STEP_RESUME_CONSOLE">>

StageIndex(stage) == CHOOSE i \in DOMAIN AtomicStages : AtomicStages[i] = stage

\* The body of one case
StageCalls(stage, action) ==
    CASE stage = "ATOMIC_ALL_STEPS" -> Did("device_power_up")
      [] stage = "ATOMIC_STEP_IRQS" -> Did("local_irq_enable")
      [] stage = "ATOMIC_STEP_CPU_HOTPLUG" ->
            IF test_action_state(action, "LATE_CPU_HOTPLUG")
            THEN Did("enable_nonboot_cpus") ELSE <<>>
      [] stage = "ATOMIC_STEP_DEVICE_RESUME" -> Did("device_resume")
      [] stage = "ATOMIC_STEP_RESUME_CONSOLE" ->
            Did("resume_console")
            \o (IF test_action_state(action, "PM_PREPARE_CONSOLE")
                THEN Did("pm_restore_console") ELSE <<>>)

\* No case ends in a break: control falls through to the last one
RECURSIVE FallThrough(_, _)
FallThrough(i, action) ==
    IF i > Len(AtomicStages) THEN <<>>
    ELSE StageCalls(AtomicStages[i], action) \o FallThrough(i + 1, action)

\* suspend2_end_atomic as it would be if it ignored its argument
suspend2_end_atomic_all_stages(stage, action) == FallThrough(1, action)

suspend2_end_atomic(stage, action) == FallThrough(StageIndex(stage), action)

\* The calls that can refuse
AtomicRefusals == {"device_suspend", "disable_nonboot_cpus",
                   "arch_prepare_suspend", "device_power_down"}

\* suspend2_go_atomic(state, suspend_time); refused names the call that
\* fails, if it is reached
suspend2_go_atomic(word, action, suspend_time, refused) ==
    LET hotplug == test_action_state(action, "LATE_CPU_HOTPLUG")
        l0 == (IF test_action_state(action, "PM_PREPARE_CONSOLE")
               THEN Did("pm_prepare_console") ELSE <<>>)
              \o Did("suspend_console")
        l1 == l0 \o Did("device_suspend")
        l2 == l1 \o (IF hotplug THEN Did("disable_nonboot_cpus") ELSE <<>>)
        l3 == l2 \o (IF suspend_time THEN Did("arch_prepare_suspend") ELSE <<>>)
                 \o Did("local_irq_disable")
    IN IF refused = "device_suspend"
       THEN [log |-> l0 \o Refused("device_suspend")
                        \o suspend2_end_atomic("ATOMIC_STEP_RESUME_CONSOLE",
                                               action),
             result |-> set_abort_result(word, "DEVICE_REFUSED"), ret |-> 1]
       ELSE IF hotplug /\ refused = "disable_nonboot_cpus"
       THEN [log |-> l1 \o Refused("disable_nonboot_cpus")
                        \o suspend2_end_atomic("ATOMIC_STEP_DEVICE_RESUME",
                                               action),
             result |-> set_abort_result(word, "CPU_HOTPLUG_FAILED"), ret |-> 1]
       ELSE IF suspend_time /\ refused = "arch_prepare_suspend"
       THEN [log |-> l2 \o Refused("arch_prepare_suspend")
                        \o suspend2_end_atomic("ATOMIC_STEP_CPU_HOTPLUG",
                                               action),
             result |-> set_abort_result(word, "ARCH_PREPARE_FAILED"), ret |-> 1]
       ELSE IF refused = "device_power_down"
       THEN [log |-> l3 \o Refused("device_power_down")
                        \o suspend2_end_atomic("ATOMIC_STEP_IRQS", action),
             result |-> set_abort_result(word, "DEVICE_REFUSED"), ret |-> 1]
       ELSE [log |-> l3 \o Did("device_power_down"), result |-> word, ret |-> 0]

AtomicActionChoices == SUBSET {"PM_PREPARE_CONSOLE", "LATE_CPU_HOTPLUG"}

InitAtomic ==
    /\ high_start = max_pfn
    /\ pc = "at_start"
    /\ toi_result = {}
    /\ toi_action \in AtomicActionChoices
    /\ tries = 1
    /\ retval = 0
    /\ pagedir1 = [size |-> 0, highmem |-> 0]
    /\ pagedir2 = [size |-> 0, highmem |-> 0]
    /\ extra_pages_allocated = 0
    /\ extra_pd1_pages_allowance = 0
    /\ AtomicAtRest
    /\ PagesAtRest
    /\ PrepareAtRest
    /\ LoadAtRest
    /\ SwapAtRest
    /\ IoAtRest

\* suspend2_go_atomic, called to suspend (suspend_time) or to restore
GoAtomic ==
    /\ pc = "at_start"
    /\ \E suspend_time \in BOOLEAN : \E refused \in AtomicRefusals \cup {"none"} :
       \E r \in {suspend2_go_atomic(toi_result, toi_action, suspend_time,
                                    refused)} :
          /\ atomic_log' = r.log
          /\ toi_result' = r.result
          /\ retval' = r.ret
          /\ pc' = IF r.ret = 0 THEN "at_atomic" ELSE "at_failed"
    /\ UNCHANGED <<toi_action, tries, page_vars, pd_vars, pre_copy, copy_done,
                   copy_overrun, copy_pairs, prep_vars, load_vars, swap_vars, io_vars>>

\* suspend2_end_atomic(ATOMIC_ALL_STEPS), once the atomic section is over
EndAtomic ==
    /\ pc = "at_atomic"
    /\ atomic_log' = atomic_log \o suspend2_end_atomic("ATOMIC_ALL_STEPS",
                                                       toi_action)
    /\ pc' = "at_ended"
    /\ UNCHANGED <<toi_result, toi_action, tries, page_vars, pd_vars, hist_vars,
                   prep_vars, load_vars, swap_vars, io_vars>>

\* suspend_atomic_restore, lines 319-361: suspend2_go_atomic(PMSG_PRETHAW,
\* 0); when it refuses, the code at Failed; otherwise swsusp_arch_resume,
\* from which control does not come back here
suspend_atomic_restore ==
    /\ pc = "at_start"
    /\ \E refused \in AtomicRefusals \cup {"none"} :
       \E r \in {suspend2_go_atomic(toi_result, toi_action, FALSE, refused)} :
          /\ toi_result' = r.result
          /\ IF r.ret # 0
             THEN /\ atomic_log' = r.log \o Did("free_pbe_list")
                       \o (IF test_action_state(toi_action, "PM_PREPARE_CONSOLE")
                           THEN Did("pm_restore_console") ELSE <<>>)
                  /\ suspend2_running' = 0
                  /\ retval' = 1
                  /\ pc' = "ar_failed"
             ELSE /\ atomic_log' = r.log \o Did("save_processor_state")
                                         \o Did("swsusp_arch_resume")
                  /\ suspend2_running' = 1
                  /\ retval' = retval
                  /\ pc' = "ar_resumed"
    /\ UNCHANGED <<toi_action, tries, page_vars, pd_vars, pre_copy, copy_done,
                   copy_overrun, copy_pairs, prep_vars, load_vars, swap_vars,
                   sig_vars, stream_vars, nl_vars, att_vars, bio_vars, wq_vars,
                   ra_vars, uhd_vars>>

NextAtomic ==
    \/ GoAtomic
    \/ EndAtomic
    \/ suspend_atomic_restore

SpecAtomic == InitAtomic /\ [][NextAtomic]_vars

(***************************************************************************)
(* A hibernation attempt: any of the entry points above.                   *)
(***************************************************************************)
Init ==
    \/ InitPages
    \/ InitPrepare
    \/ InitAtomic

Next ==
    \/ NextPages
    \/ NextPrepare
    \/ NextAtomic

Spec == Init /\ [][Next]_vars

(***************************************************************************)
(* Resuming: ___suspend_get_nonconflicting_page and                        *)
(* suspend_get_pageset1_load_addresses (pagedir.c).  pageset1_map holds    *)
(* the frames the image's pageset 1 is to be restored to, page_free the    *)
(* frames the running kernel's page allocator can still give out.          *)
(***************************************************************************)
\* include/linux/suspend.h: #define test_suspend_state(bit)
test_suspend_state(word, bit) == bit \in word

\* what alloc_pages and ___suspend_get_nonconflicting_page return for no page
NoPage == 0 - 1

\* include/linux/suspend.h: struct pbe holds three pointers
sizeof_pbe == 24

\* the error get_next_pbe wraps in ERR_PTR
ENOMEM == 12

\* alloc_pages(flags, 0): a free frame of a zone the flags allow, or no page
alloc_pages(free, highmem_ok) ==
    {p \in free : highmem_ok \/ ~PageHighMem(p)} \cup {NoPage}

\* recyclable as it would be without the test of PagePageset1
recyclable_in_pageset1(page, ps1, can_be_highmem) ==
    can_be_highmem \/ ~PageHighMem(page)

\* lines 244-245: the test a frame of pageset2_map passes to be handed out
recyclable(page, ps1, can_be_highmem) ==
    page \notin ps1 /\ (can_be_highmem \/ ~PageHighMem(page))

RECURSIVE RescanLoop(_, _, _, _)
RescanLoop(cursor, ps1, ps2, can_be_highmem) ==
    LET found == get_next_bit_on(ps2, cursor)
    IN IF found <= max_pfn
       THEN IF recyclable(found, ps1, can_be_highmem)
            THEN [page |-> found, ps2_pfn |-> found]
            ELSE IF found < max_pfn
            THEN RescanLoop(found, ps1, ps2, can_be_highmem)
            ELSE [page |-> NoPage, ps2_pfn |-> found]
       ELSE [page |-> NoPage, ps2_pfn |-> found + 1]

\* the loop over pageset2_map as it would be if every call scanned the map
\* from its first frame.
RecycleLoopFromStart(cursor, ps1, ps2, can_be_highmem) ==
    RescanLoop(max_pfn + 1, ps1, ps2, can_be_highmem)

\* lines 240-250: the loop over pageset2_map, from the cursor on
RECURSIVE RecycleLoop(_, _, _, _)
RecycleLoop(cursor, ps1, ps2, can_be_highmem) ==
    LET found == get_next_bit_on(ps2, cursor)
    IN IF found <= max_pfn
       THEN IF recyclable(found, ps1, can_be_highmem)
            THEN [page |-> found, ps2_pfn |-> found]
            ELSE IF found < max_pfn
            THEN RecycleLoop(found, ps1, ps2, can_be_highmem)
            ELSE [page |-> NoPage, ps2_pfn |-> found]
       ELSE [page |-> NoPage, ps2_pfn |-> found + 1]

\* lines 253-265: the loop over alloc_pages; a frame of pageset 1 is put on
\* the chain of conflicting pages and another one is asked for
RECURSIVE FreshLoop(_, _, _, _)
FreshLoop(free, chain, ps1, highmem_ok) ==
    UNION { IF page = NoPage
            THEN {[page |-> NoPage, free |-> free, chain |-> chain,
                   alloc_failed |-> TRUE]}
            ELSE IF page \in ps1
            THEN FreshLoop(free \ {page}, <<page>> \o chain, ps1, highmem_ok)
            ELSE {[page |-> page, free |-> free \ {page}, chain |-> chain,
                   alloc_failed |-> FALSE]}
          : page \in alloc_pages(free, highmem_ok) }

\* ___suspend_get_nonconflicting_page(can_be_highmem) on m = [free, ps2_pfn,
\* chain, handed]: the set of [page, m] it may end with.  pageset2_map is
\* allocated whenever an alternate image is being loaded.
suspend_get_nonconflicting_page(m, ps1, ps2, state, can_be_highmem) ==
    LET recycling == /\ test_suspend_state(state, "LOADING_ALT_IMAGE")
                     /\ m.ps2_pfn < max_pfn + 2
        r == IF recycling THEN RecycleLoop(m.ps2_pfn, ps1, ps2, can_be_highmem)
             ELSE [page |-> NoPage, ps2_pfn |-> m.ps2_pfn]
        entry(page, recycled, failed) ==
            <<[can_be_highmem |-> can_be_highmem, page |-> page,
               recycled |-> recycled, alloc_failed |-> failed]>>
    IN IF r.page # NoPage
       THEN {[page |-> r.page,
              m |-> [m EXCEPT !.ps2_pfn = r.ps2_pfn,
                              !.handed = @ \o entry(r.page, TRUE, FALSE)]]}
       ELSE {[page |-> f.page,
              m |-> [free |-> f.free, ps2_pfn |-> r.ps2_pfn, chain |-> f.chain,
                     handed |-> m.handed
                                \o entry(f.page, FALSE, f.alloc_failed)]]
             : f \in FreshLoop(m.free, m.chain, ps1, can_be_highmem)}

\* tuxonice.h, load_direct
load_direct(page, action, copy) ==
    IF test_action_state(action, "NO_DIRECT_LOAD") THEN FALSE ELSE page \in copy

\* get_next_pbe as it would be if it left room for three pbes.
get_next_pbe_early(pbe_page, index, highmem, m, ps1, ps2, state) ==
    IF ((index * sizeof_pbe) % PAGE_SIZE) + 3 * sizeof_pbe > PAGE_SIZE
    THEN {[pbe_page |-> IF g.page = NoPage THEN pbe_page ELSE g.page,
           index |-> 0, m |-> g.m, err |-> g.page = NoPage]
          : g \in suspend_get_nonconflicting_page(m, ps1, ps2, state, highmem)}
    ELSE {[pbe_page |-> pbe_page, index |-> index + 1, m |-> m, err |-> FALSE]}

\* get_next_pbe: the pbe after the one at `index` of pbe_page; a new page is
\* taken when two more pbes do not fit on this one.  The set of
\* [pbe_page, index, m, err].
get_next_pbe(pbe_page, index, highmem, m, ps1, ps2, state) ==
    IF ((index * sizeof_pbe) % PAGE_SIZE) + 2 * sizeof_pbe > PAGE_SIZE
    THEN {[pbe_page |-> IF g.page = NoPage THEN pbe_page ELSE g.page,
           index |-> 0, m |-> g.m, err |-> g.page = NoPage]
          : g \in suspend_get_nonconflicting_page(m, ps1, ps2, state, highmem)}
    ELSE {[pbe_page |-> pbe_page, index |-> index + 1, m |-> m, err |-> FALSE]}

\* The search for the next original as it would be without load_direct.
RECURSIVE NextOrigIgnoringDirect(_, _, _, _, _)
NextOrigIgnoringDirect(ps1, cursor, high, action, copy) ==
    LET found == get_next_bit_on(ps1, cursor)
    IN IF found > max_pfn THEN found
       ELSE IF PageHighMem(found) # high
       THEN NextOrigIgnoringDirect(ps1, found, high, action, copy)
       ELSE found

\* lines 419-424 and 448-453: the next frame of pageset1_map of the wanted
\* zone that is not loaded directly; past max_pfn when there is none (BUG_ON)
RECURSIVE NextOrig(_, _, _, _, _)
NextOrig(ps1, cursor, high, action, copy) ==
    LET found == get_next_bit_on(ps1, cursor)
    IN IF found > max_pfn THEN found
       ELSE IF PageHighMem(found) # high \/ load_direct(found, action, copy)
       THEN NextOrig(ps1, found, high, action, copy)
       ELSE found

\* lines 392-464: what the second loop does with one frame of
\* pageset1_copy_map.  L carries the locals and the memory; the set of L
\* after the frame.
PbeForFrame(L, pfn, ps1, ps2, state, action) ==
    LET is_high == PageHighMem(pfn)
    IN IF pfn \in ps1 THEN {L}
       ELSE IF (is_high /\ L.high_to_free # 0) \/ (~is_high /\ L.low_to_free # 0)
       THEN {[L EXCEPT !.copy = @ \ {pfn},
                       !.m.free = @ \cup {pfn},
                       !.high_to_free = IF is_high THEN @ - 1 ELSE @,
                       !.low_to_free = IF is_high THEN @ ELSE @ - 1]}
       ELSE IF is_high \/ L.low_pages_for_highmem # 0
       THEN LET orig == NextOrig(ps1, L.orig_high_pfn, TRUE, action, L.copy)
            IN IF orig > max_pfn THEN {[L EXCEPT !.bug = TRUE]}
               ELSE {[L EXCEPT
                        !.low_pages_for_highmem = IF is_high THEN @ ELSE @ - 1,
                        !.orig_high_pfn = orig,
                        !.high_pbes = @ \o <<[orig_address |-> orig,
                                               address |-> pfn]>>,
                        !.last_high_pbe_page = L.high_pbe_page,
                        !.high_pbe_page = n.pbe_page,
                        !.this_high_pbe = n.index,
                        !.m = n.m,
                        !.ret = IF n.err THEN 0 - ENOMEM ELSE @]
                     : n \in get_next_pbe(L.high_pbe_page, L.this_high_pbe, TRUE,
                                          L.m, ps1, ps2, state)}
       ELSE LET orig == NextOrig(ps1, L.orig_low_pfn, FALSE, action, L.copy)
            IN IF orig > max_pfn THEN {[L EXCEPT !.bug = TRUE]}
               ELSE {[L EXCEPT
                        !.orig_low_pfn = orig,
                        !.low_pbes = @ \o <<[orig_address |-> orig,
                                              address |-> pfn]>>,
                        !.low_pbe_page = n.pbe_page,
                        !.this_low_pbe = n.index,
                        !.m = n.m,
                        !.ret = IF n.err THEN 0 - ENOMEM ELSE @]
                     : n \in get_next_pbe(L.low_pbe_page, L.this_low_pbe, FALSE,
                                          L.m, ps1, ps2, state)}

\* lines 392-464: BITMAP_FOR_EACH_SET(pageset1_copy_map, pfn), from pfn on;
\* a BUG or a return of -ENOMEM ends it
RECURSIVE GeneratePbes(_, _, _, _, _, _)
GeneratePbes(L, pfn, ps1, ps2, state, action) ==
    IF pfn > max_pfn \/ L.bug \/ L.ret # 0 THEN {L}
    ELSE IF pfn \notin L.copy
    THEN GeneratePbes(L, pfn + 1, ps1, ps2, state, action)
    ELSE UNION {GeneratePbes(n, pfn + 1, ps1, ps2, state, action)
                : n \in PbeForFrame(L, pfn, ps1, ps2, state, action)}

RECURSIVE FreeChain(_, _)
\* free_conflicting_pages: every frame of the chain goes back to the allocator
FreeChain(free, chain) ==
    IF chain = <<>> THEN free ELSE FreeChain(free \cup {Head(chain)}, Tail(chain))

\* lines 466-477: the end of a call that got through the second loop
LoadFinish(L) ==
    IF L.bug \/ L.ret # 0 THEN L
    ELSE LET freed == IF L.last_high_pbe_page # L.high_pbe_page
                      THEN {L.high_pbe_page} ELSE {}
         IN [L EXCEPT !.m.free = FreeChain(@ \cup freed, L.m.chain),
                      !.m.chain = <<>>]

\* lines 337-390: from the allocation of all possible memory (the frames
\* `grabbed`) to the counts the second loop starts with
LoadCounts(m, copy, grabbed, high_pbe_page, low_pbe_page, ps1, action, pd1) ==
    LET copy1 == copy \cup grabbed
        direct == copy1 \cap ps1
        no_direct == test_action_state(action, "NO_DIRECT_LOAD")
        copy2 == IF no_direct THEN copy1 \ direct ELSE copy1
        free2 == IF no_direct THEN (m.free \ grabbed) \cup direct
                 ELSE m.free \ grabbed
        high_direct == IF no_direct THEN 0
                       ELSE Cardinality({p \in direct : PageHighMem(p)})
        low_direct == IF no_direct THEN 0
                      ELSE Cardinality({p \in direct : ~PageHighMem(p)})
        highallocd == Cardinality({p \in copy1 \ ps1 : PageHighMem(p)})
        lowallocd == Cardinality({p \in copy1 \ ps1 : ~PageHighMem(p)})
        high_needed1 == get_highmem_size(pd1) - high_direct
        low_needed1 == pd1.size - get_highmem_size(pd1) - low_direct
        low_pages_for_highmem == IF high_needed1 > highallocd
                                 THEN high_needed1 - highallocd ELSE 0
        high_needed == high_needed1 - low_pages_for_highmem
        low_needed == low_needed1 + low_pages_for_highmem
    IN [m |-> [m EXCEPT !.free = free2], copy |-> copy2,
        high_pbe_page |-> high_pbe_page, last_high_pbe_page |-> NoPage,
        low_pbe_page |-> low_pbe_page, this_high_pbe |-> 0, this_low_pbe |-> 0,
        high_to_free |-> highallocd - high_needed,
        low_to_free |-> lowallocd - low_needed,
        low_pages_for_highmem |-> low_pages_for_highmem,
        low_needed |-> low_needed, lowallocd |-> lowallocd,
        high_wanted |-> high_needed1, highallocd |-> highallocd,
        orig_low_pfn |-> max_pfn + 1, orig_high_pfn |-> max_pfn + 1,
        low_pbes |-> <<>>, high_pbes |-> <<>>, ret |-> 0, bug |-> FALSE]

\* A call that returns 1 before the second loop (lines 320-321, 327-328)
LoadFailed(m, copy) ==
    [m |-> m, copy |-> copy, high_pbe_page |-> NoPage,
     last_high_pbe_page |-> NoPage, low_pbe_page |-> NoPage,
     this_high_pbe |-> 0, this_low_pbe |-> 0, high_to_free |-> 0,
     low_to_free |-> 0, low_pages_for_highmem |-> 0, low_needed |-> 0,
     lowallocd |-> 0, high_wanted |-> 0, highallocd |-> 0,
     orig_low_pfn |-> max_pfn + 1,
     orig_high_pfn |-> max_pfn + 1, low_pbes |-> <<>>, high_pbes |-> <<>>,
     ret |-> 1, bug |-> FALSE]

\* suspend_get_pageset1_load_addresses on the memory m and the map copy: the
\* set of ends of the call, each with the value returned
suspend_get_pageset1_load_addresses(m, copy, ps1, ps2, state, action, pd1) ==
    LET high_needed == get_highmem_size(pd1)
        highs == IF high_needed # 0
                 THEN suspend_get_nonconflicting_page(m, ps1, ps2, state, TRUE)
                 ELSE {[page |-> NoPage, m |-> m]}
    IN UNION {
         IF high_needed # 0 /\ h.page = NoPage THEN {LoadFailed(h.m, copy)}
         ELSE UNION {
                IF l.page = NoPage THEN {LoadFailed(l.m, copy)}
                ELSE UNION {
                       {LoadFinish(e) :
                          e \in GeneratePbes(
                                  LoadCounts(l.m, copy, grabbed, h.page, l.page,
                                             ps1, action, pd1),
                                  0, ps1, ps2, state, action)}
                       : grabbed \in SUBSET l.m.free}
                : l \in suspend_get_nonconflicting_page(h.m, ps1, ps2, state,
                                                        FALSE)}
         : h \in highs}

\* The machines resumed on: two highmem frames, one, or no highmem at all.
ZoneLayouts == {max_pfn - 1, max_pfn, max_pfn + 1}

LoadActionChoices == {{}, {"NO_DIRECT_LOAD"}}

LoadMemoryNow ==
    [free |-> page_free, ps2_pfn |-> ps2_pfn, chain |-> first_conflicting_page,
     handed |-> handed]

InitLoad ==
    /\ high_start \in ZoneLayouts
    /\ PbeAtRest
    /\ pc = "ld_start"
    /\ toi_result = {}
    /\ toi_action \in LoadActionChoices
    /\ suspend_state \in {{}, {"LOADING_ALT_IMAGE"}}
    /\ pageset1_map \in SUBSET Pfns
    /\ page_free \in SUBSET Pfns
    /\ pageset2_map \in IF test_suspend_state(suspend_state, "LOADING_ALT_IMAGE")
                        THEN SUBSET (Pfns \ page_free) ELSE {{}}
    /\ pagedir1 = [size |-> Cardinality(pageset1_map),
                   highmem |-> Cardinality({p \in pageset1_map : PageHighMem(p)})]
    /\ pagedir2 = [size |-> 0, highmem |-> 0]
    /\ pageset1_copy_map = {}
    /\ ps2_pfn = max_pfn + 1
    /\ first_conflicting_page = <<>>
    /\ restore_pblist = <<>>
    /\ restore_highmem_pblist = <<>>
    /\ handed = <<>>
    /\ page_nosave = {}
    /\ page_nosave_free = {}
    /\ page_resave = {}
    /\ unsaveable = {}
    /\ pfn_invalid = {}
    /\ mem = [p \in Pfns |-> p]
    /\ mmap = [t \in Tasks |-> {}]
    /\ mmap_skipped = [t \in Tasks |-> {}]
    /\ lru = {}
    /\ env_steps = 0
    /\ num_nosave = 0
    /\ num_free = 0
    /\ extra_pages_allocated = 0
    /\ extras_list = <<>>
    /\ extra_pd1_pages_allowance = 0
    /\ extra_pd1_pages_used = 0
    /\ pre_copy = [mem |-> mem, ps1 |-> {}, copy |-> {}]
    /\ copy_done = FALSE
    /\ copy_overrun = FALSE
    /\ copy_pairs = <<>>
    /\ tries = 1
    /\ retval = 0
    /\ PrepareAtRest
    /\ AtomicAtRest
    /\ SwapAtRest
    /\ IoAtRest

\* ___suspend_get_nonconflicting_page, called once while the image is loaded
GetNonconflictingPage ==
    /\ pc = "ld_start"
    /\ handed = <<>>
    /\ \E can_be_highmem \in BOOLEAN :
       \E g \in suspend_get_nonconflicting_page(LoadMemoryNow, pageset1_map,
                                                pageset2_map, suspend_state,
                                                can_be_highmem) :
          /\ page_free' = g.m.free
          /\ ps2_pfn' = g.m.ps2_pfn
          /\ first_conflicting_page' = g.m.chain
          /\ handed' = g.m.handed
          /\ retval' = g.page
    /\ UNCHANGED <<pc, toi_result, toi_action, tries, page_nosave,
                   page_nosave_free, page_resave, unsaveable, pfn_invalid,
                   pageset1_map, pageset1_copy_map, pageset2_map, mem, mmap, mmap_skipped, lru,
                   env_steps, pd_vars, pre_copy, copy_done, copy_overrun,
                   copy_pairs, prep_vars, atomic_log, suspend_state,
                   restore_pblist, restore_highmem_pblist, high_start, pbe_vars,
                   swap_vars, io_vars>>

\* suspend_get_pageset1_load_addresses
LoadAddresses ==
    /\ pc = "ld_start"
    /\ \E e \in suspend_get_pageset1_load_addresses(
                   LoadMemoryNow, pageset1_copy_map, pageset1_map, pageset2_map,
                   suspend_state, toi_action, pagedir1) :
          /\ page_free' = e.m.free
          /\ ps2_pfn' = e.m.ps2_pfn
          /\ first_conflicting_page' = e.m.chain
          /\ handed' = e.m.handed
          /\ pageset1_copy_map' = e.copy
          /\ restore_pblist' = e.low_pbes
          /\ restore_highmem_pblist' = e.high_pbes
          /\ retval' = e.ret
          /\ pc' = IF e.bug THEN "ld_bug" ELSE "ld_done"
    /\ UNCHANGED <<toi_result, toi_action, tries, page_nosave, page_nosave_free,
                   page_resave, unsaveable, pfn_invalid, pageset1_map,
                   pageset2_map, mem, mmap, mmap_skipped, lru, env_steps, pd_vars, pre_copy,
                   copy_done, copy_overrun, copy_pairs, prep_vars, atomic_log,
                   suspend_state, high_start, pbe_vars, swap_vars, io_vars>>

NextLoad ==
    \/ GetNonconflictingPage
    \/ LoadAddresses

SpecLoad == InitLoad /\ [][NextLoad]_vars

(***************************************************************************)
(* The highmem pbe list in memory: how the second loop of                  *)
(* suspend_get_pageset1_load_addresses links it (pagedir.c) and how        *)
(* copyback_high walks it (atomic_copy.c).  The frames the pbes name are   *)
(* left out here: the k-th pbe names original HighOrig(k) and copy         *)
(* HighCopy(k).                                                            *)
(***************************************************************************)
\* pbe pages filled completely by the longest list built
MaxPbePages == 2

PBES_PER_PAGE == PAGE_SIZE \div sizeof_pbe
MaxPbes == MaxPbePages * PBES_PER_PAGE + 1
HighOrig(k) == k
HighCopy(k) == MaxPbes + k

\* What a next field holds: nothing, the address of a pbe, or a struct page *.
NullPtr == <<>>
PbePtr(page, index) == [kind |-> "pbe", page |-> page, index |-> index]
PagePtr(page) == [kind |-> "page", page |-> page]

\* a pbe of a page fresh from memset(this_pbe, 0, PAGE_SIZE)
ZeroPbe == [orig_address |-> 0, address |-> 0, next |-> NullPtr]
ReadPbe(pages, page, index) ==
    IF <<page, index>> \in DOMAIN pages THEN pages[<<page, index>>] ELSE ZeroPbe
WritePbe(pages, page, index, pbe) ==
    [slot \in DOMAIN pages \cup {<<page, index>>} |->
        IF slot = <<page, index>> THEN pbe ELSE pages[slot]]

\* lines 426-439: the pbe at this_high_pbe is filled and linked to the list.
\* B = [pages, head, l], l the locals; last_high_pbe_ptr is <<>> for
\* &restore_highmem_pblist and <<page, index>> for the next field of a pbe.
LinkHighPbe(B, orig_page, page) ==
    LET l == B.l
        filled == WritePbe(B.pages, l.high_pbe_page, l.this_high_pbe,
                           [orig_address |-> orig_page, address |-> page,
                            next |-> NullPtr])
        link == IF l.last_high_pbe_page # l.high_pbe_page
                THEN PagePtr(l.high_pbe_page)
                ELSE PbePtr(l.high_pbe_page, l.this_high_pbe)
        at == l.last_high_pbe_ptr
    IN [pages |-> IF at = <<>> THEN filled
                  ELSE WritePbe(filled, at[1], at[2],
                                [ReadPbe(filled, at[1], at[2]) EXCEPT !.next = link]),
        head |-> IF at = <<>> THEN link ELSE B.head,
        l |-> [l EXCEPT !.last_high_pbe_ptr = <<l.high_pbe_page, l.this_high_pbe>>,
                        !.last_high_pbe_page = l.high_pbe_page,
                        !.high_pbes_done = @ + 1]]

\* copyback_high, lines 65-95, one pbe page at a time: the loop copies the
\* pbes of pbe_page from the first one up to the one whose next is null, or
\* up to pbe number PBES_PER_PAGE, whose next it follows as a struct page *.
\* wild: a value that is not a struct page * was followed as one; ended is
\* false when the walk is still going after `fuel` pages.
RECURSIVE CopybackLoop(_, _, _, _)
CopybackLoop(pages, pbe_page, copies, fuel) ==
    LET ends == {i \in 0..(PBES_PER_PAGE - 1) :
                    ReadPbe(pages, pbe_page, i).next = NullPtr}
        last == IF ends = {} THEN PBES_PER_PAGE - 1 ELSE SetMin(ends)
        done == copies \o [k \in 1..(last + 1) |->
                             [orig_address |-> ReadPbe(pages, pbe_page, k - 1).orig_address,
                              address |-> ReadPbe(pages, pbe_page, k - 1).address]]
        next == ReadPbe(pages, pbe_page, last).next
    IN IF fuel = 0 THEN [copies |-> copies, ended |-> FALSE, wild |-> FALSE]
       ELSE IF next = NullPtr
       THEN [copies |-> done, ended |-> TRUE, wild |-> FALSE]
       ELSE IF next.kind # "page"
       THEN [copies |-> done, ended |-> TRUE, wild |-> TRUE]
       ELSE CopybackLoop(pages, next.page, done, fuel - 1)

\* copyback_high, lines 51-97
copyback_high(pages, head) ==
    IF head = NullPtr THEN [copies |-> <<>>, ended |-> TRUE, wild |-> FALSE]
    ELSE IF head.kind # "page" THEN [copies |-> <<>>, ended |-> TRUE, wild |-> TRUE]
    ELSE CopybackLoop(pages, head.page, <<>>, MaxPbePages + 2)

PbeRest ==
    UNCHANGED <<toi_result, toi_action, tries, page_nosave, page_nosave_free,
                page_resave, unsaveable, pfn_invalid, pageset1_map,
                pageset1_copy_map, pageset2_map, mem, mmap, mmap_skipped, lru, env_steps,
                pd_vars, pre_copy, copy_done, copy_overrun, copy_pairs,
                prep_vars, atomic_log, suspend_state, restore_pblist,
                high_start, swap_vars, io_vars>>

\* The state after lines 318-323 of a call with highmem pages to stage.
InitPbe ==
    /\ high_start = max_pfn
    /\ pc = "pb_build"
    /\ toi_result = {}
    /\ toi_action = {}
    /\ tries = 1
    /\ retval = 0
    /\ pagedir1 = [size |-> 0, highmem |-> 0]
    /\ pagedir2 = [size |-> 0, highmem |-> 0]
    /\ extra_pages_allocated = 0
    /\ extra_pd1_pages_allowance = 0
    /\ page_nosave = {}
    /\ page_nosave_free = {}
    /\ page_resave = {}
    /\ unsaveable = {}
    /\ pfn_invalid = {}
    /\ pageset1_map = {}
    /\ pageset1_copy_map = {}
    /\ pageset2_map = {}
    /\ mem = [p \in Pfns |-> p]
    /\ mmap = [t \in Tasks |-> {}]
    /\ mmap_skipped = [t \in Tasks |-> {}]
    /\ lru = {}
    /\ env_steps = 0
    /\ num_nosave = 0
    /\ num_free = 0
    /\ extras_list = <<>>
    /\ extra_pd1_pages_used = 0
    /\ pre_copy = [mem |-> mem, ps1 |-> {}, copy |-> {}]
    /\ copy_done = FALSE
    /\ copy_overrun = FALSE
    /\ copy_pairs = <<>>
    /\ PrepareAtRest
    /\ AtomicAtRest
    /\ SwapAtRest
    /\ IoAtRest
    /\ suspend_state = {}
    /\ ps2_pfn = max_pfn + 1
    /\ first_conflicting_page = <<>>
    /\ restore_pblist = <<>>
    /\ restore_highmem_pblist = NullPtr
    /\ pbe_mem = <<>>
    /\ copied_back = <<>>
    /\ \E first \in {max_pfn} :
          /\ page_free = Pfns \ {first}
          /\ pbe_locals = [high_pbe_page |-> first, last_high_pbe_page |-> NoPage,
                           this_high_pbe |-> 0, last_high_pbe_ptr |-> <<>>,
                           high_pbes_done |-> 0]
          /\ handed = <<[can_be_highmem |-> TRUE, page |-> first,
                         recycled |-> FALSE, alloc_failed |-> FALSE]>>

\* lines 412-444: one more highmem pbe
AddHighPbe ==
    /\ pc = "pb_build"
    /\ pbe_locals.high_pbes_done < MaxPbes
    /\ \E B \in {LinkHighPbe([pages |-> pbe_mem, head |-> restore_highmem_pblist,
                              l |-> pbe_locals],
                             HighOrig(pbe_locals.high_pbes_done + 1),
                             HighCopy(pbe_locals.high_pbes_done + 1))} :
       \E n \in get_next_pbe(B.l.high_pbe_page, B.l.this_high_pbe, TRUE,
                             LoadMemoryNow, pageset1_map, pageset2_map,
                             suspend_state) :
          /\ pbe_mem' = B.pages
          /\ restore_highmem_pblist' = B.head
          /\ pbe_locals' = [B.l EXCEPT !.high_pbe_page = n.pbe_page,
                                       !.this_high_pbe = n.index]
          /\ page_free' = n.m.free
          /\ ps2_pfn' = n.m.ps2_pfn
          /\ first_conflicting_page' = n.m.chain
          /\ handed' = n.m.handed
          /\ retval' = IF n.err THEN 0 - ENOMEM ELSE 0
          /\ pc' = IF n.err THEN "pb_failed" ELSE "pb_build"
    /\ UNCHANGED copied_back
    /\ PbeRest

\* lines 466-479: the end of the call
FinishHighList ==
    /\ pc = "pb_build"
    /\ page_free' = IF pbe_locals.last_high_pbe_page # pbe_locals.high_pbe_page
                    THEN page_free \cup {pbe_locals.high_pbe_page}
                    ELSE page_free
    /\ retval' = 0
    /\ pc' = "pb_built"
    /\ UNCHANGED <<ps2_pfn, first_conflicting_page, handed, restore_highmem_pblist,
                   pbe_vars>>
    /\ PbeRest

\* copyback_high
CopybackHigh ==
    /\ pc = "pb_built"
    /\ copied_back' = copyback_high(pbe_mem, restore_highmem_pblist)
    /\ pc' = "pb_copied"
    /\ UNCHANGED <<page_free, ps2_pfn, first_conflicting_page, handed, retval,
                   restore_highmem_pblist, pbe_mem, pbe_locals>>
    /\ PbeRest

NextPbe ==
    \/ AddHighPbe
    \/ FinishHighList
    \/ CopybackHigh

SpecPbe == InitPbe /\ [][NextPbe]_vars

(***************************************************************************)
(* The supply of nonconflicting pages over several calls (pagedir.c).      *)
(***************************************************************************)
\* the calls of ___suspend_get_nonconflicting_page followed between two
\* resets of the cursor
MaxGets == 3

\* free_conflicting_pages as it would be if it freed the head only.
free_conflicting_pages_head(free, chain, freed) ==
    IF chain = <<>> THEN [free |-> free, chain |-> chain, freed |-> freed]
    ELSE [free |-> free \cup {Head(chain)}, chain |-> Tail(chain),
          freed |-> freed \o <<Head(chain)>>]

RECURSIVE free_conflicting_pages(_, _, _)
\* free_conflicting_pages: while the chain has a head, the next frame is read
\* from the head's content, the head is freed and the next frame becomes the
\* head; `freed` lists the calls of __free_page
free_conflicting_pages(free, chain, freed) ==
    IF chain = <<>> THEN [free |-> free, chain |-> chain, freed |-> freed]
    ELSE free_conflicting_pages(free \cup {Head(chain)}, Tail(chain),
                                freed \o <<Head(chain)>>)

GetRest ==
    UNCHANGED <<toi_result, toi_action, tries, page_nosave, page_nosave_free,
                page_resave, unsaveable, pfn_invalid, pageset1_map,
                pageset1_copy_map, pageset2_map, mem, mmap, mmap_skipped, lru, env_steps,
                pd_vars, pre_copy, copy_done, copy_overrun, copy_pairs,
                prep_vars, atomic_log, suspend_state, restore_pblist,
                restore_highmem_pblist, high_start, pbe_vars, swap_vars, io_vars>>

\* The image is being loaded: some frames are free and, when an alternate
\* image is loaded, some allocated ones are in pageset2_map; of these
\* frames, the only ones a call looks at, some are marked Pageset1.
InitGet ==
    /\ high_start = max_pfn
    /\ PbeAtRest
    /\ pc = "gt_run"
    /\ toi_result = {}
    /\ toi_action = {}
    /\ suspend_state \in {{}, {"LOADING_ALT_IMAGE"}}
    /\ page_free \in SUBSET Pfns
    /\ pageset2_map \in IF test_suspend_state(suspend_state, "LOADING_ALT_IMAGE")
                        THEN SUBSET (Pfns \ page_free) ELSE {{}}
    /\ pageset1_map \in SUBSET (page_free \cup pageset2_map)
    /\ pagedir1 = [size |-> Cardinality(pageset1_map),
                   highmem |-> Cardinality({p \in pageset1_map : PageHighMem(p)})]
    /\ pagedir2 = [size |-> 0, highmem |-> 0]
    /\ pageset1_copy_map = {}
    /\ ps2_pfn = max_pfn + 1
    /\ first_conflicting_page = <<>>
    /\ restore_pblist = <<>>
    /\ restore_highmem_pblist = <<>>
    /\ handed = <<>>
    /\ page_nosave = {}
    /\ page_nosave_free = {}
    /\ page_resave = {}
    /\ unsaveable = {}
    /\ pfn_invalid = {}
    /\ mem = [p \in Pfns |-> p]
    /\ mmap = [t \in Tasks |-> {}]
    /\ mmap_skipped = [t \in Tasks |-> {}]
    /\ lru = {}
    /\ env_steps = 0
    /\ num_nosave = 0
    /\ num_free = 0
    /\ extra_pages_allocated = 0
    /\ extras_list = <<>>
    /\ extra_pd1_pages_allowance = 0
    /\ extra_pd1_pages_used = 0
    /\ pre_copy = [mem |-> mem, ps1 |-> {}, copy |-> {}]
    /\ copy_done = FALSE
    /\ copy_overrun = FALSE
    /\ copy_pairs = <<>>
    /\ tries = 1
    /\ retval = 0
    /\ PrepareAtRest
    /\ AtomicAtRest
    /\ SwapAtRest
    /\ IoAtRest

\* one more call of ___suspend_get_nonconflicting_page
GetPage ==
    /\ pc \in {"gt_run", "gt_freed"}
    /\ pc' = "gt_run"
    /\ Len(handed) < MaxGets
    /\ \E can_be_highmem \in BOOLEAN :
       \E g \in suspend_get_nonconflicting_page(LoadMemoryNow, pageset1_map,
                                                pageset2_map, suspend_state,
                                                can_be_highmem) :
          /\ page_free' = g.m.free
          /\ ps2_pfn' = g.m.ps2_pfn
          /\ first_conflicting_page' = g.m.chain
          /\ handed' = g.m.handed
    /\ UNCHANGED retval
    /\ GetRest

\* suspend_reset_alt_image_pageset2_pfn; the calls are counted from here on
ResetCursor ==
    /\ pc \in {"gt_run", "gt_freed"}
    /\ pc' = "gt_run"
    /\ handed # <<>>
    /\ ps2_pfn' = max_pfn + 1
    /\ handed' = <<>>
    /\ UNCHANGED <<page_free, first_conflicting_page, retval>>
    /\ GetRest

\* free_conflicting_pages
FreeConflictingPages ==
    /\ pc = "gt_run"
    /\ pc' = "gt_freed"
    /\ first_conflicting_page # <<>>
    /\ \E r \in {free_conflicting_pages(page_free, first_conflicting_page, <<>>)} :
          /\ page_free' = r.free
          /\ first_conflicting_page' = r.chain
    /\ UNCHANGED <<ps2_pfn, handed, retval>>
    /\ GetRest

NextGet ==
    \/ GetPage
    \/ ResetCursor
    \/ FreeConflictingPages

SpecGet == InitGet /\ [][NextGet]_vars

(***************************************************************************)
(* suspend_mark_pages_for_pageset2 over tasks with special mappings.       *)
(***************************************************************************)
\* How a frame is mapped: by the ordinary process, by it and the helper, by
\* the invoking task, by nobody (page cache, kernel), or through a vma with
\* VM_PFNMAP, VM_IO or VM_RESERVED set or starting at address 0: by the
\* helper alone off the LRU (a driver's buffer), by the helper while an
\* ordinary process maps it in the ordinary way, by the invoking task
MarkKinds == {"user", "shared", "mine", "cache", "kernel", "helper_special",
              "helper_special_shared", "mine_special"}

\* A task's vmas, as the frames each holds: one the walk goes through, one
\* it skips
Vmas(t) == {[skipped |-> FALSE, pages |-> mmap[t]],
            [skipped |-> TRUE, pages |-> mmap_skipped[t]]}

\* suspend_mark_task_as_pageset, lines 54-80: the frames of the vmas that
\* are not skipped at lines 57-65
WalkedPages(t) == UNION {v.pages : v \in {w \in Vmas(t) : ~w.skipped}}

\* every frame the task maps
MappedPages(t) == UNION {v.pages : v \in Vmas(t)}

MarkRest ==
    UNCHANGED <<toi_action, tries, page_free, page_nosave, page_nosave_free,
                page_resave, unsaveable, pfn_invalid, pageset1_copy_map, mem,
                mmap_skipped, lru, pd_vars, hist_vars, prep_vars, atomic_log,
                load_vars, swap_vars, io_vars>>

InitMark ==
    /\ high_start = max_pfn
    /\ pc = "mk_start"
    /\ toi_result = {}
    /\ toi_action \in PageActionChoices
    /\ tries = 1
    /\ retval = 0
    /\ \E kind \in [Pfns -> MarkKinds] :
          /\ mmap = [t \in Tasks |->
                       IF t = "proc"
                       THEN OfKind(kind, {"user", "shared", "helper_special_shared"})
                       ELSE IF t = "helper" THEN OfKind(kind, {"shared"})
                       ELSE OfKind(kind, {"mine"})]
          /\ mmap_skipped = [t \in Tasks |->
                       IF t = "helper"
                       THEN OfKind(kind, {"helper_special", "helper_special_shared"})
                       ELSE IF t = "current" THEN OfKind(kind, {"mine_special"})
                       ELSE {}]
          /\ lru = OfKind(kind, {"user", "shared", "mine", "cache",
                                 "helper_special_shared", "mine_special"})
    /\ page_free = {}
    /\ page_nosave = {}
    /\ page_nosave_free = {}
    /\ page_resave = {}
    /\ unsaveable = {}
    /\ pfn_invalid = {}
    /\ pageset1_map = {}
    /\ pageset1_copy_map = {}
    /\ pageset2_map = {}
    /\ mem = [p \in Pfns |-> p]
    /\ env_steps = 0
    /\ pagedir1 = [size |-> 0, highmem |-> 0]
    /\ pagedir2 = [size |-> 0, highmem |-> 0]
    /\ num_nosave = 0
    /\ num_free = 0
    /\ extra_pages_allocated = 0
    /\ extras_list = <<>>
    /\ extra_pd1_pages_allowance = 0
    /\ extra_pd1_pages_used = 0
    /\ pre_copy = [mem |-> mem, ps1 |-> {}, copy |-> {}]
    /\ copy_done = FALSE
    /\ copy_overrun = FALSE
    /\ copy_pairs = <<>>
    /\ PrepareAtRest
    /\ AtomicAtRest
    /\ LoadAtRest
    /\ SwapAtRest
    /\ IoAtRest

\* suspend_mark_pages_for_pageset2
MarkPages ==
    /\ pc = "mk_start"
    /\ \E kmalloc_ok \in BOOLEAN :
       \E r \in {suspend_mark_pages_for_pageset2(
                    pageset1_map, pageset2_map, toi_result,
                    [t \in Tasks |-> WalkedPages(t)], lru, kmalloc_ok)} :
          /\ pageset1_map' = r.ps1
          /\ pageset2_map' = r.ps2
          /\ toi_result' = r.result
          /\ pc' = IF test_result_state(r.result, "ABORTED") THEN "mk_aborted"
                   ELSE "mk_done"
    /\ UNCHANGED <<mmap, env_steps>>
    /\ MarkRest

\* Between two passes the helper, which is not frozen, maps a frame of the
\* ordinary process
HelperMaps ==
    /\ pc = "mk_done"
    /\ env_steps < MaxEnvSteps
    /\ \E p \in mmap["proc"] \ MappedPages("helper") :
          mmap' = [mmap EXCEPT !["helper"] = @ \cup {p}]
    /\ env_steps' = env_steps + 1
    /\ pc' = "mk_start"
    /\ UNCHANGED <<toi_result, pageset1_map, pageset2_map>>
    /\ MarkRest

NextMark ==
    \/ MarkPages
    \/ HelperMaps

SpecMark == InitMark /\ [][NextMark]_vars

(***************************************************************************)
(* The signature in the swap header (the swap allocator).                  *)
(***************************************************************************)
BITS_PER_LONG == 64

\* the characters of the signatures, as their codes
SWAP_SPACE == <<83, 87, 65, 80, 45, 83, 80, 65, 67, 69>>
SWAPSPACE2 == <<83, 87, 65, 80, 83, 80, 65, 67, 69, 50>>
S1SUSP == <<83, 49, 83, 85, 83, 80>>
S2SUSP == <<83, 50, 83, 85, 83, 80>>
S1SUSPEND == <<83, 49, 83, 85, 83, 80, 69, 78, 68>>
LittleZ == <<122>>
BigZ == <<90>>

\* !memcmp(text, header, n) with n the length of text
SameStart(text, header) == SubSeq(header, 1, Len(text)) = text

\* header with the bytes of `value` stored from the C index `at` on
StoreBytes(header, at, value) ==
    [i \in 1..Len(header) |->
        IF i > at /\ i <= at + Len(value) THEN value[i - at] ELSE header[i]]

\* the bytes of an object of `size` bytes read at the C index `at`
LoadBytes(header, at, size) == SubSeq(header, at + 1, at + size)

\* the position, from 0, of the lowest bit set in a byte that is not 0
LowestBit(byte) ==
    CHOOSE k \in 0..7 :
       /\ (byte \div (2 ^ k)) % 2 = 1
       /\ \A j \in 0..(k - 1) : (byte \div (2 ^ j)) % 2 = 0

\* ffs(int): the position, from 1, of the lowest bit set in the low 32 bits
\* of the value, 0 when none is set
ffs(value) ==
    LET low == SubSeq(value, 1, 4)
        set == {i \in 1..4 : low[i] # 0}
    IN IF set = {} THEN 0
       ELSE 8 * (SetMin(set) - 1) + LowestBit(low[SetMin(set)]) + 1

\* lines 284-297 of parse_signature: the type of the signature
signature_type(header) ==
    IF SameStart(SWAP_SPACE, header) THEN 0
    ELSE IF SameStart(SWAPSPACE2, header) THEN 1
    ELSE IF SameStart(S1SUSP, header) THEN 2
    ELSE IF SameStart(S2SUSP, header) THEN 3
    ELSE IF SameStart(S1SUSPEND, header) THEN 4
    ELSE IF SameStart(LittleZ, header) THEN 12
    ELSE IF SameStart(BigZ, header) THEN 13
    ELSE 0 - 1

\* type & 1
OddType(type) == type % 2 = 1

\* parse_signature(header, restore) with the globals g = [dev, block, state]:
\* the value returned, the header and the globals after it
parse_signature(header, restore, g) ==
    LET type == signature_type(header)
        ours == type > 11
        before == LoadBytes(header, 5, 1)[1] >= 128
        state == IF before THEN g.state \cup {"RESUMED_BEFORE"}
                 ELSE g.state \ {"RESUMED_BEFORE"}
    IN [ret |-> type,
        header |-> IF type \in {0, 1} \/ ~(restore /\ type > 5) THEN header
                   ELSE StoreBytes(header, 0, IF OddType(type) THEN SWAPSPACE2
                                              ELSE SWAP_SPACE),
        g |-> IF type \in {0, 1} \/ ~ours THEN g
              ELSE [dev |-> LoadBytes(header, 1, 4),
                    block |-> LoadBytes(header, 6, 4) \o <<0, 0, 0, 0>>,
                    state |-> state]]

\* line 351: the test meant to catch a block of 33 bits or more
block_refused(block) == BITS_PER_LONG = 64 /\ ffs(block) > 31

\* prepare_signature(bdev, block, current_header)
prepare_signature(bdev, block, current_header, g) ==
    LET parsed == parse_signature(current_header, FALSE, g)
        current_type == parsed.ret
    IN IF current_type > 1 /\ current_type < 6
       THEN [ret |-> 1, header |-> current_header, g |-> parsed.g]
       ELSE IF block_refused(block)
       THEN [ret |-> 1, header |-> current_header, g |-> parsed.g]
       ELSE [ret |-> 0,
             header |-> StoreBytes(
                           StoreBytes(
                              StoreBytes(current_header, 0,
                                         IF OddType(current_type) THEN BigZ
                                         ELSE LittleZ),
                              1, bdev),
                           6, block),
             g |-> parsed.g]

SigGlobals == [dev |-> header_dev_t, block |-> headerblock, state |-> suspend_state]

\* The bytes a block number is made of: any of its low four, 0 or 1 in its
\* high four
LowByteChoices == {0, 1, 128}
HighByteChoices == {0, 1}
BlockChoices ==
    {lo \o hi : lo \in [1..4 -> LowByteChoices], hi \in [1..4 -> HighByteChoices]}
DevChoices == {<<3, 8, 0, 0>>, <<1, 0, 16, 0>>}
HeaderChoices ==
    {SWAP_SPACE, SWAPSPACE2, S1SUSP \o <<0, 0, 0, 0>>,
     LittleZ \o <<2, 8, 0, 0, 0, 7, 0, 0, 0>>,
     BigZ \o <<2, 8, 0, 0, 128, 7, 0, 0, 0>>,
     <<0, 0, 0, 0, 0, 0, 0, 0, 0, 0>>}

SigRest ==
    UNCHANGED <<toi_result, toi_action, tries, page_vars, pd_vars, pre_copy,
                copy_done, copy_overrun, copy_pairs, prep_vars, atomic_log,
                ps2_pfn, first_conflicting_page, restore_pblist,
                restore_highmem_pblist, handed, high_start, pbe_vars, swap_vars,
                sig_args, stream_vars, nl_vars, more_vars>>

\* The swap header has been read into the buffer, which ends with the ten
\* bytes of the signature; four bytes of what lies after it are followed
InitSig ==
    /\ high_start = max_pfn
    /\ pc = "sg_start"
    /\ toi_result = {}
    /\ toi_action = {}
    /\ tries = 1
    /\ retval = 0
    /\ pagedir1 = [size |-> 0, highmem |-> 0]
    /\ pagedir2 = [size |-> 0, highmem |-> 0]
    /\ extra_pages_allocated = 0
    /\ extra_pd1_pages_allowance = 0
    /\ PagesAtRest
    /\ PrepareAtRest
    /\ AtomicAtRest
    /\ PbeAtRest
    /\ SwapAtRest
    /\ StreamAtRest
    /\ NlAtRest
    /\ MoreAtRest
    /\ suspend_state = {}
    /\ ps2_pfn = max_pfn + 1
    /\ first_conflicting_page = <<>>
    /\ restore_pblist = <<>>
    /\ restore_highmem_pblist = <<>>
    /\ handed = <<>>
    /\ sig_header \in {h \o <<0, 0, 0, 0>> : h \in HeaderChoices}
    /\ header_dev_t = <<0, 0, 0, 0>>
    /\ headerblock = <<0, 0, 0, 0, 0, 0, 0, 0>>
    /\ sig_args \in [bdev : DevChoices, block : BlockChoices]

\* prepare_signature, as toi_swap_write_header_cleanup calls it
PrepareSignature ==
    /\ pc = "sg_start"
    /\ \E r \in {prepare_signature(sig_args.bdev, sig_args.block, sig_header,
                                   SigGlobals)} :
          /\ sig_header' = r.header
          /\ header_dev_t' = r.g.dev
          /\ headerblock' = r.g.block
          /\ suspend_state' = r.g.state
          /\ retval' = r.ret
          /\ pc' = IF r.ret = 0 THEN "sg_written" ELSE "sg_refused"
    /\ SigRest

\* parse_signature on the signature that was written
ParseSignature ==
    /\ pc = "sg_written"
    /\ \E restore \in BOOLEAN :
       \E r \in {parse_signature(sig_header, restore, SigGlobals)} :
          /\ sig_header' = r.header
          /\ header_dev_t' = r.g.dev
          /\ headerblock' = r.g.block
          /\ suspend_state' = r.g.state
          /\ retval' = r.ret
          /\ pc' = "sg_parsed"
    /\ SigRest

NextSig ==
    \/ PrepareSignature
    \/ ParseSignature

SpecSig == InitSig /\ [][NextSig]_vars

(***************************************************************************)
(* The swap allocator's storage: swapextents and the block chains.         *)
(***************************************************************************)
MaxSlots == 2
ENOSPC == 28

\* The swap files of the machine: the first has MaxSlots pages to give, the
\* second a single one.  Offset 0 of each holds the swap header.
SwapFiles == {0, 1}
MAX_SWAPFILES == Cardinality(SwapFiles)
SwapOffsets(type) == IF type = 0 THEN 1..MaxSlots ELSE {1}
SwapTypeStride == MaxSlots + 1
SwapEntries ==
    {e \in [type : SwapFiles, offset : 1..MaxSlots] : e.offset \in SwapOffsets(e.type)}
NoEntry == [type |-> 0, offset |-> 0]

\* swp_entry_t.val holds the swap file's number above the offset.
swp_type(entry) == entry.type
swp_offset(entry) == entry.offset
swap_entry_to_extent_val(entry) == entry.type * SwapTypeStride + entry.offset
extent_val_to_swap_entry(value) ==
    [type |-> value \div SwapTypeStride, offset |-> value % SwapTypeStride]

\* map_swap_page: the sector that holds a swap offset.  A swap partition is
\* laid out in order; a swap file's blocks may lie in any order on the disk,
\* here in the reverse one.
SwapLayouts == {"partition", "file"}
map_swap_page(sis, offset) ==
    IF sis = "partition" THEN offset ELSE SwapTypeStride - offset

\* get_swap_page: any entry not in use, or none.
get_swap_page(free) == free \cup {NoEntry}

\* ---- the extent chain
\* The extents of a chain are kept most recently added first; size counts the
\* values they cover.
EmptyChain == [extents |-> <<>>, size |-> 0]

\* An add that extends the tail whether or not the new range continues it.
toi_add_to_extent_chain_merging(chain, min, max, node) ==
    IF chain.extents # <<>>
    THEN [err |-> 0,
          chain |-> [extents |-> <<[min |-> Head(chain.extents).min, max |-> max]>>
                                    \o Tail(chain.extents),
                     size |-> chain.size + (max - min + 1)]]
    ELSE IF ~node
    THEN [err |-> 0 - ENOMEM, chain |-> chain]
    ELSE [err |-> 0,
          chain |-> [extents |-> <<[min |-> min, max |-> max]>> \o chain.extents,
                     size |-> chain.size + (max - min + 1)]]

\* add(chain, min, max): the new range extends the tail when it continues it,
\* otherwise it needs a node (node = the allocator grants one).
toi_add_to_extent_chain(chain, min, max, node) ==
    IF chain.extents # <<>> /\ Head(chain.extents).max + 1 = min
    THEN [err |-> 0,
          chain |-> [extents |-> <<[min |-> Head(chain.extents).min, max |-> max]>>
                                    \o Tail(chain.extents),
                     size |-> chain.size + (max - min + 1)]]
    ELSE IF ~node
    THEN [err |-> 0 - ENOMEM, chain |-> chain]
    ELSE [err |-> 0,
          chain |-> [extents |-> <<[min |-> min, max |-> max]>> \o chain.extents,
                     size |-> chain.size + (max - min + 1)]]

RECURSIVE ExtentValues(_, _)
ExtentValues(min, max) ==
    IF min > max THEN <<>> ELSE <<min>> \o ExtentValues(min + 1, max)

RECURSIVE ChainValues(_)
ChainValues(extents) ==
    IF extents = <<>> THEN <<>>
    ELSE ChainValues(Tail(extents))
            \o ExtentValues(Head(extents).min, Head(extents).max)

\* for-each(chain): the values in the order their extents were added.
toi_extent_for_each(chain) == ChainValues(chain.extents)

\* ---- free_swap_range
free_swap_range(free, min, max) ==
    free \cup {extent_val_to_swap_entry(j) : j \in min..max}

\* ---- toi_swap_allocate_header_space, from the seek on
\* The writer is put on the first page of the block chains and moved on once
\* per header page; a move past the last of the total pages fails.
HeaderSeek(space_requested, total) ==
    IF space_requested > 0 /\ space_requested + 1 > total
    THEN [result |-> 0 - ENOSPC,
          header_pages_allocated |-> IF total > 0 THEN total - 1 ELSE 0]
    ELSE [result |-> 0, header_pages_allocated |-> space_requested]

BlockTotal(chains) ==
    LET RECURSIVE Sum(_)
        Sum(F) == IF F = {} THEN 0
                  ELSE LET f == CHOOSE g \in F : TRUE
                       IN  chains[f].size + Sum(F \ {f})
    IN  Sum(DOMAIN chains)

\* ---- get_main_pool_phys_params
NoBlockChains == [f \in SwapFiles |-> EmptyChain]
NoBlockLog == [f \in SwapFiles |-> <<>>]

\* lines 436-447 and 457-464: the run collected so far goes to its chain.
AddBlockRun(B) ==
    { LET a == toi_add_to_extent_chain(B.block_chain[B.last_chain],
                                       B.extent_min, B.extent_max, node)
      IN  IF a.err # 0
          THEN [B EXCEPT !.err = 0 - ENOMEM, !.block_chain = NoBlockChains,
                         !.log = NoBlockLog]
          ELSE [B EXCEPT !.block_chain[B.last_chain] = a.chain,
                         !.log[B.last_chain] =
                             Append(@, [min |-> B.extent_min, max |-> B.extent_max])]
      : node \in BOOLEAN }

RECURSIVE BlockLoop(_, _, _)
BlockLoop(B, values, info) ==
    IF values = <<>> THEN {B}
    ELSE LET swap_address == extent_val_to_swap_entry(Head(values))
             swapfilenum == swp_type(swap_address)
             new_sector == map_swap_page(info[swapfilenum], swp_offset(swap_address))
         IN  IF new_sector = B.extent_max + 1 /\ B.last_chain = swapfilenum
             THEN BlockLoop([B EXCEPT !.extent_max = @ + 1], Tail(values), info)
             ELSE UNION { IF C.err # 0 THEN {C}
                          ELSE BlockLoop([C EXCEPT !.extent_min = new_sector,
                                                   !.extent_max = new_sector,
                                                   !.last_chain = swapfilenum],
                                         Tail(values), info)
                          : C \in IF B.extent_min > 0 - 1 THEN AddBlockRun(B) ELSE {B} }

\* Gives the block chains, their logs, and the result with the header pages
\* of the closing toi_swap_allocate_header_space(header_pages_allocated);
\* swapextents is never empty at that call, so it goes straight to the seek.
get_main_pool_phys_params(chain, info, header) ==
    UNION { UNION { IF D.err # 0
                    THEN {[result |-> D.err, block_chain |-> D.block_chain,
                           log |-> D.log, header_pages_allocated |-> header]}
                    ELSE { [result |-> h.result, block_chain |-> D.block_chain,
                            log |-> D.log,
                            header_pages_allocated |-> h.header_pages_allocated]
                           : h \in {HeaderSeek(header, BlockTotal(D.block_chain))} }
                    : D \in IF C.err = 0 /\ C.extent_min > 0 - 1
                            THEN AddBlockRun(C) ELSE {C} }
            : C \in BlockLoop([block_chain |-> NoBlockChains, log |-> NoBlockLog,
                               extent_min |-> 0 - 1, extent_max |-> 0 - 1,
                               last_chain |-> 0 - 1, err |-> 0],
                              toi_extent_for_each(chain), info) }

\* ---- __toi_swap_allocate_storage
\* lines 582-624: L holds the free entries, swapextents with its log and the
\* locals to_add, extent_min, extent_max and gotten.
RECURSIVE SwapGetLoop(_, _, _)
SwapGotEntry(L, i, pages_to_get, entry) ==
    LET swapfilenum == swp_type(entry)
        new_value == swap_entry_to_extent_val(entry)
        taken == [L EXCEPT !.free = @ \ {entry}]
        started == [taken EXCEPT !.to_add[swapfilenum] = TRUE,
                                 !.extent_min[swapfilenum] = new_value,
                                 !.extent_max[swapfilenum] = new_value,
                                 !.gotten = @ + 1]
    IN  IF ~L.to_add[swapfilenum]
        THEN SwapGetLoop(started, i + 1, pages_to_get)
        ELSE IF new_value = L.extent_max[swapfilenum] + 1
        THEN SwapGetLoop([taken EXCEPT !.extent_max[swapfilenum] = @ + 1,
                                       !.gotten = @ + 1],
                         i + 1, pages_to_get)
        ELSE UNION {
            LET a == toi_add_to_extent_chain(L.chain, L.extent_min[swapfilenum],
                                             L.extent_max[swapfilenum], node)
            IN  IF a.err # 0
                THEN {[L EXCEPT
                         !.free = free_swap_range(@, L.extent_min[swapfilenum],
                                                  L.extent_max[swapfilenum])
                                  \cup {entry},
                         !.gotten = @ - (L.extent_max[swapfilenum]
                                         - L.extent_min[swapfilenum] + 1),
                         !.to_add[swapfilenum] = FALSE]}
                ELSE SwapGetLoop(
                        [started EXCEPT
                           !.chain = a.chain,
                           !.log = Append(@, [min |-> L.extent_min[swapfilenum],
                                              max |-> L.extent_max[swapfilenum]])],
                        i + 1, pages_to_get)
            : node \in BOOLEAN }

SwapGetLoop(L, i, pages_to_get) ==
    IF i >= pages_to_get THEN {L}
    ELSE UNION { IF entry = NoEntry THEN {L}
                 ELSE SwapGotEntry(L, i, pages_to_get, entry)
                 : entry \in get_swap_page(L.free) }

\* lines 627-635: the runs still to add, one swap file after the other; the
\* first that cannot be added is given back and ends the loop.
RECURSIVE SwapFinalAdds(_, _)
SwapFinalAdds(L, i) ==
    IF i >= MAX_SWAPFILES THEN {L}
    ELSE IF ~L.to_add[i] THEN SwapFinalAdds(L, i + 1)
    ELSE UNION {
        LET a == toi_add_to_extent_chain(L.chain, L.extent_min[i],
                                         L.extent_max[i], node)
        IN  IF a.err = 0
            THEN SwapFinalAdds(
                    [L EXCEPT !.chain = a.chain,
                              !.log = Append(@, [min |-> L.extent_min[i],
                                                 max |-> L.extent_max[i]])],
                    i + 1)
            ELSE {[L EXCEPT
                     !.free = free_swap_range(@, L.extent_min[i], L.extent_max[i]),
                     !.gotten = @ - (L.extent_max[i] - L.extent_min[i] + 1)]}
        : node \in BOOLEAN }

\* sizeof(unsigned long) + sizeof(int)
sizeof_swap_index == 12

\* S is the allocator's state: free, swapextents, block_chain, the logs,
\* main_pages_allocated and header_pages_allocated.  Gives the set of
\* [result, S] the call may end in.
toi_swap_allocate_storage_inner(S, info, main_requested, header_requested) ==
    LET extra_pages == DIV_ROUND_UP(main_requested * sizeof_swap_index,
                                    PAGE_SIZE)
        pages_to_get == main_requested + extra_pages
                        + header_requested - S.swapextents.size
    IN  IF pages_to_get < 1 THEN {[result |-> 0, S |-> S]}
        ELSE UNION { UNION {
            IF F.gotten < pages_to_get
            THEN {[result |-> 0 - ENOSPC,
                   S |-> [S EXCEPT !.free = F.free, !.swapextents = F.chain,
                                   !.log.swap = F.log,
                                   !.main_pages_allocated = @ + F.gotten]]}
            ELSE { [result |-> g.result,
                    S |-> [S EXCEPT !.free = F.free, !.swapextents = F.chain,
                                    !.log.swap = F.log,
                                    !.log.block = g.log,
                                    !.block_chain = g.block_chain,
                                    !.main_pages_allocated = @ + F.gotten,
                                    !.header_pages_allocated =
                                        g.header_pages_allocated]]
                   : g \in get_main_pool_phys_params(F.chain, info,
                                                     S.header_pages_allocated) }
            : F \in SwapFinalAdds(L, 0) }
            : L \in SwapGetLoop([free |-> S.free, chain |-> S.swapextents,
                                 log |-> S.log.swap,
                                 to_add |-> [f \in SwapFiles |-> FALSE],
                                 extent_min |-> [f \in SwapFiles |-> 0],
                                 extent_max |-> [f \in SwapFiles |-> 0],
                                 gotten |-> 0],
                                0, pages_to_get) }

SwapStorageNow ==
    [free |-> swap_slots_free, swapextents |-> swapextents,
     block_chain |-> block_chain, log |-> chain_log,
     main_pages_allocated |-> main_pages_allocated,
     header_pages_allocated |-> header_pages_allocated]

SwapStorageBecomes(S) ==
    /\ swap_slots_free' = S.free
    /\ swapextents' = S.swapextents
    /\ block_chain' = S.block_chain
    /\ chain_log' = S.log
    /\ main_pages_allocated' = S.main_pages_allocated
    /\ header_pages_allocated' = S.header_pages_allocated

SwapRest ==
    UNCHANGED <<pc, toi_result, toi_action, tries, page_vars, pd_vars, pre_copy,
                copy_done, copy_overrun, copy_pairs, prep_vars, atomic_log,
                load_vars, swap_info, io_vars>>

MaxSwapRequest == MaxSlots + 1

InitSwap ==
    /\ high_start = max_pfn
    /\ PbeAtRest
    /\ pc = "sw_idle"
    /\ toi_result = {}
    /\ \E resuming \in BOOLEAN :
          /\ toi_action = IF resuming THEN {"KEEP_IMAGE"} ELSE {}
          /\ suspend_state = IF resuming THEN {"NOW_RESUMING"} ELSE {}
    /\ tries = 1
    /\ retval = 0
    /\ pagedir1 = [size |-> 0, highmem |-> 0]
    /\ pagedir2 = [size |-> 0, highmem |-> 0]
    /\ extra_pages_allocated = 0
    /\ extra_pd1_pages_allowance = 0
    /\ PagesAtRest
    /\ PrepareAtRest
    /\ AtomicAtRest
    /\ ps2_pfn = max_pfn + 1
    /\ first_conflicting_page = <<>>
    /\ restore_pblist = <<>>
    /\ restore_highmem_pblist = <<>>
    /\ handed = <<>>
    /\ swap_slots_free = SwapEntries
    /\ swap_info \in [SwapFiles -> SwapLayouts]
    /\ swapextents = EmptyChain
    /\ block_chain = NoBlockChains
    /\ main_pages_allocated = 0
    /\ main_pages_requested = 0
    /\ header_pages_allocated = 0
    /\ chain_log = [swap |-> <<>>, block |-> NoBlockLog]
    /\ IoAtRest

\* toi_swap_allocate_storage, lines 533-542
AllocateStorage ==
    /\ pc = "sw_idle"
    /\ \E space_requested \in 0..MaxSwapRequest :
       \E r \in toi_swap_allocate_storage_inner(SwapStorageNow, swap_info,
                                                space_requested,
                                                header_pages_allocated) :
          /\ SwapStorageBecomes(r.S)
          /\ main_pages_requested' = IF r.result = 0 THEN space_requested
                                     ELSE main_pages_requested
          /\ retval' = IF r.result = 0 THEN 0 ELSE 0 - ENOSPC
    /\ SwapRest

\* toi_swap_allocate_header_space, lines 369-399
AllocateHeaderSpace ==
    /\ pc = "sw_idle"
    /\ \E space_requested \in 0..MaxSlots :
       \E r \in IF swapextents.size = 0
                THEN toi_swap_allocate_storage_inner(SwapStorageNow, swap_info,
                                                     main_pages_requested,
                                                     space_requested)
                ELSE {[result |-> 0, S |-> SwapStorageNow]} :
          IF r.result # 0
          THEN /\ SwapStorageBecomes(r.S)
               /\ retval' = 0 - ENOSPC
          ELSE \E h \in {HeaderSeek(space_requested, BlockTotal(r.S.block_chain))} :
               /\ SwapStorageBecomes([r.S EXCEPT !.header_pages_allocated =
                                                     h.header_pages_allocated])
               /\ retval' = h.result
    /\ UNCHANGED main_pages_requested
    /\ SwapRest

\* toi_swap_release_storage, lines 508-531
ReleaseStorage ==
    /\ pc = "sw_idle"
    /\ IF "KEEP_IMAGE" \in toi_action /\ test_suspend_state(suspend_state, "NOW_RESUMING")
       THEN UNCHANGED <<swap_slots_free, swapextents, block_chain, chain_log,
                        main_pages_allocated, header_pages_allocated>>
       ELSE /\ header_pages_allocated' = 0
            /\ main_pages_allocated' = 0
            /\ IF swapextents.extents # <<>>
               THEN /\ swap_slots_free' = swap_slots_free \cup
                           {extent_val_to_swap_entry(toi_extent_for_each(swapextents)[k])
                            : k \in 1..Len(toi_extent_for_each(swapextents))}
                    /\ swapextents' = EmptyChain
                    /\ block_chain' = NoBlockChains
                    /\ chain_log' = [swap |-> <<>>, block |-> NoBlockLog]
               ELSE UNCHANGED <<swap_slots_free, swapextents, block_chain, chain_log>>
    /\ retval' = 0
    /\ UNCHANGED main_pages_requested
    /\ SwapRest

NextSwap ==
    \/ AllocateStorage
    \/ AllocateHeaderSpace
    \/ ReleaseStorage

SpecSwap == InitSwap /\ [][NextSwap]_vars

(***************************************************************************)
(* The image streams.  The storage is walked with one cursor,              *)
(* toi_writer_posn, over the block chains; a page of the model holds       *)
(* PageUnits units of data, and sizes are counted in those units.  The     *)
(* extent iterator is the one the specification describes: a chain index,  *)
(* an extent within the chain and an offset within the extent.             *)
(***************************************************************************)
PageUnits == 2
ENODATA == 61
MaxIoPages == 4
CoreHeaderUnits == 1

Owners == {"toi_swapops", "compressor"}

StartPosn == [current_chain |-> 0 - 1, current_extent |-> 0, current_offset |-> 0]

toi_extent_state_goto_start(state) == StartPosn

toi_extent_state_eof(state, chains) == state.current_chain = Len(chains)

\* The first half of toi_extent_state_next: one block further within the
\* chain the cursor is in.
ExtentStep(state, chains) ==
    IF state.current_extent = 0
    THEN state
    ELSE LET e == chains[state.current_chain + 1].extents IN
         IF state.current_offset = e[state.current_extent].maximum
         THEN IF state.current_extent < Len(e)
              THEN [state EXCEPT !.current_extent = @ + 1,
                                 !.current_offset = e[state.current_extent + 1].minimum]
              ELSE [state EXCEPT !.current_extent = 0, !.current_offset = 0]
         ELSE [state EXCEPT !.current_offset = @ + 1]

\* Its second half: on to the first extent of the next chain that has one.
RECURSIVE NextChain(_, _)
NextChain(state, chains) ==
    IF state.current_extent # 0
    THEN state
    ELSE LET c == state.current_chain + 1 IN
         IF c = Len(chains)
         THEN [state EXCEPT !.current_chain = c]
         ELSE IF chains[c + 1].extents = <<>>
              THEN NextChain([state EXCEPT !.current_chain = c], chains)
              ELSE [state EXCEPT !.current_chain = c, !.current_extent = 1,
                                 !.current_offset = chains[c + 1].extents[1].minimum]

toi_extent_state_next(state, chains) ==
    IF state.current_chain = Len(chains)
    THEN state
    ELSE NextChain(ExtentStep(state, chains), chains)

toi_extent_state_save(state, extent_num) ==
    [chain_num |-> state.current_chain,
     extent_num |-> IF state.current_chain = 0 - 1 THEN 0 ELSE extent_num,
     offset |-> state.current_offset]

\* The extent_num a save counts: the extents before the current one.  At
\* the end of the storage the count is taken in a chain that does not exist.
SavedExtentNums(state, chains) ==
    IF toi_extent_state_eof(state, chains) \/ state.current_extent = 0
    THEN {0, 1}
    ELSE {state.current_extent - 1}

toi_extent_state_restore(saved, chains) ==
    IF saved.chain_num = 0 - 1
    THEN StartPosn
    ELSE [current_chain |-> saved.chain_num,
          current_extent |-> IF saved.chain_num >= Len(chains) THEN 0
                             ELSE IF saved.extent_num + 1 > Len(chains[saved.chain_num + 1].extents)
                                  THEN 0 ELSE saved.extent_num + 1,
          current_offset |-> saved.offset]

RECURSIVE StepBlocks(_, _, _)
StepBlocks(state, chains, n) ==
    IF n = 0 THEN state
    ELSE StepBlocks(toi_extent_state_next(state, chains), chains, n - 1)

\* go_next_page while nothing reads the header: extra_page_forward is 0.
go_next_page(state, chains) ==
    StepBlocks(state, chains,
               IF state.current_chain = 0 - 1 THEN 1
               ELSE IF state.current_chain = Len(chains) THEN 1
               ELSE chains[state.current_chain + 1].blocks_per_page)

\* D is the writer's state: posn, save, stream, buffer_posn, used, log, bug
\* and result.
header_written_past_end(D, state) ==
    /\ D.stream = 0
    /\ state.current_chain = D.save[2].chain_num
    /\ state.current_offset = D.save[2].offset

toi_bio_rw_page(D, chains) ==
    LET state == go_next_page(D.posn, chains) IN
    IF D.bug THEN D
    ELSE IF toi_extent_state_eof(state, chains)
    THEN [D EXCEPT !.posn = state, !.result = 0 - ENODATA]
    ELSE IF header_written_past_end(D, state)
    THEN [D EXCEPT !.posn = state, !.bug = TRUE]
    ELSE [D EXCEPT !.posn = state, !.result = 0,
                   !.log = Append(@, [stream |-> D.stream,
                                      chain |-> state.current_chain,
                                      offset |-> state.current_offset])]

\* toi_rw_buffer when writing, with each full page queued and then flushed
\* in the order it was queued.
RECURSIVE toi_rw_buffer(_, _, _)
toi_rw_buffer(D, bytes_left, chains) ==
    LET capacity == PageUnits - D.buffer_posn IN
    IF bytes_left = 0 \/ D.bug THEN D
    ELSE IF bytes_left <= capacity
         THEN [D EXCEPT !.buffer_posn = @ + bytes_left]
         ELSE toi_rw_buffer([toi_bio_rw_page(D, chains) EXCEPT !.buffer_posn = 0],
                            bytes_left - capacity, chains)

header_unchecked(used, requested) == FALSE

header_overrun(used, requested) == used > requested

toi_rw_header_chunk(D, owner, buffer_size, requested, chains) ==
    IF owner = "none"
    THEN toi_rw_buffer(D, buffer_size, chains)
    ELSE LET U == [D EXCEPT !.used[owner] = @ + buffer_size] IN
         IF header_overrun(U.used[owner], requested[owner])
         THEN [U EXCEPT !.result = buffer_size]
         ELSE toi_rw_buffer(U, buffer_size, chains)

write_header_chunk_finish(D, chains) ==
    IF D.buffer_posn = 0 THEN D ELSE toi_bio_rw_page(D, chains)

\* header_storage_needed of the negotiator, for what the core and the
\* modules ask for.
HeaderUnitsAsked(requested) ==
    CoreHeaderUnits + requested["toi_swapops"] + requested["compressor"]

HeaderPagesFor(units) == DIV_ROUND_UP(units, PageUnits)

\* The loop of toi_swap_allocate_header_space: the pages it could step over.
RECURSIVE SeekHeader(_, _, _, _)
SeekHeader(state, chains, i, space_requested) ==
    IF i = space_requested
    THEN [posn |-> state, allocated |-> space_requested, result |-> 0]
    ELSE LET n == go_next_page(state, chains) IN
         IF toi_extent_state_eof(n, chains)
         THEN [posn |-> n, allocated |-> i, result |-> 0 - ENOSPC]
         ELSE SeekHeader(n, chains, i + 1, space_requested)

Ext(lo, hi) == [minimum |-> lo, maximum |-> hi]

StorageLayouts ==
    {<<[extents |-> <<Ext(1, 2), Ext(5, 7)>>, blocks_per_page |-> 1]>>,
     <<[extents |-> <<Ext(1, 2)>>, blocks_per_page |-> 1],
       [extents |-> <<>>, blocks_per_page |-> 1],
       [extents |-> <<Ext(1, 3)>>, blocks_per_page |-> 1]>>,
     <<[extents |-> <<Ext(0, 3), Ext(8, 13)>>, blocks_per_page |-> 2]>>,
     <<[extents |-> <<Ext(4, 5)>>, blocks_per_page |-> 1]>>}

NoSave == [chain_num |-> 0, extent_num |-> 0, offset |-> 0]

Writer ==
    [posn |-> toi_writer_posn, save |-> toi_writer_posn_save,
     stream |-> current_stream, buffer_posn |-> toi_writer_buffer_posn,
     used |-> header_used, log |-> io_log, bug |-> bug_hit, result |-> 0]

StreamRest ==
    UNCHANGED <<toi_result, toi_action, tries, page_vars, pd_vars, hist_vars,
                prep_vars, atomic_log, load_vars, swap_slots_free, swap_info,
                swapextents, block_chain, main_pages_allocated,
                main_pages_requested, chain_log, sig_vars, stream_chains,
                owner_requested, nl_vars, more_vars>>

InitStream ==
    /\ high_start = max_pfn
    /\ pc = "st_start"
    /\ toi_result = {}
    /\ toi_action = {}
    /\ tries = 1
    /\ retval = 0
    /\ pagedir1 = [size |-> 0, highmem |-> 0]
    /\ pagedir2 = [size |-> 0, highmem |-> 0]
    /\ extra_pages_allocated = 0
    /\ extra_pd1_pages_allowance = 0
    /\ PagesAtRest
    /\ PrepareAtRest
    /\ AtomicAtRest
    /\ LoadAtRest
    /\ SwapAtRest
    /\ SigAtRest
    /\ NlAtRest
    /\ MoreAtRest
    /\ stream_chains \in StorageLayouts
    /\ owner_requested \in [Owners -> 0..PageUnits]
    /\ header_used = [o \in Owners |-> 0]
    /\ toi_writer_posn = StartPosn
    /\ toi_writer_posn_save = [s \in 0..2 |-> NoSave]
    /\ current_stream = 0
    /\ toi_writer_buffer_posn = 0
    /\ io_log = <<>>
    /\ bug_hit = FALSE

SetWriter(D) ==
    /\ toi_writer_posn' = D.posn
    /\ toi_writer_buffer_posn' = D.buffer_posn
    /\ header_used' = D.used
    /\ io_log' = D.log
    /\ bug_hit' = D.bug

\* toi_swap_allocate_header_space, with storage already allocated.
StreamAllocateHeaderSpace ==
    /\ pc = "st_start"
    /\ \E r \in {SeekHeader(go_next_page(StartPosn, stream_chains), stream_chains, 0,
                            HeaderPagesFor(HeaderUnitsAsked(owner_requested)))} :
          /\ toi_writer_posn' = r.posn
          /\ header_pages_allocated' = r.allocated
          /\ IF r.result = 0
             THEN /\ \E en \in SavedExtentNums(r.posn, stream_chains) :
                        toi_writer_posn_save' =
                           [toi_writer_posn_save EXCEPT ![2] = toi_extent_state_save(r.posn, en)]
                  /\ pc' = "st_ready2"
             ELSE /\ UNCHANGED toi_writer_posn_save
                  /\ pc' = "st_alloc_failed"
    /\ UNCHANGED <<current_stream, toi_writer_buffer_posn, header_used, io_log, bug_hit>>
    /\ StreamRest

StreamOf(label) == IF label \in {"st_ready2", "st_write2"} THEN 2 ELSE 1

toi_rw_init ==
    /\ pc \in {"st_ready2", "st_ready1"}
    /\ toi_writer_posn' = toi_extent_state_restore(toi_writer_posn_save[StreamOf(pc)],
                                                   stream_chains)
    /\ toi_writer_buffer_posn' = 0
    /\ current_stream' = StreamOf(pc)
    /\ pc' = IF pc = "st_ready2" THEN "st_write2" ELSE "st_write1"
    /\ UNCHANGED <<toi_writer_posn_save, header_used, io_log, bug_hit,
                   header_pages_allocated>>
    /\ StreamRest

\* toi_bio_write_page: the index, the size and the data of one page of the
\* image go through the buffer.
toi_bio_write_page ==
    /\ pc \in {"st_write2", "st_write1"}
    /\ Len(io_log) < MaxIoPages
    /\ \E buf_size \in 1..(PageUnits + 1) :
          SetWriter(toi_rw_buffer(Writer, buf_size, stream_chains))
    /\ UNCHANGED <<pc, toi_writer_posn_save, current_stream, header_pages_allocated>>
    /\ StreamRest

toi_rw_cleanup ==
    /\ pc \in {"st_write2", "st_write1"}
    /\ \E D \in {write_header_chunk_finish(Writer, stream_chains)} :
          /\ SetWriter(D)
          /\ IF current_stream = 2
             THEN \E en \in SavedExtentNums(D.posn, stream_chains) :
                     toi_writer_posn_save' =
                        [toi_writer_posn_save EXCEPT ![1] = toi_extent_state_save(D.posn, en)]
             ELSE UNCHANGED toi_writer_posn_save
    /\ current_stream' = 0
    /\ pc' = IF pc = "st_write2" THEN "st_ready1" ELSE "st_ready0"
    /\ UNCHANGED header_pages_allocated
    /\ StreamRest

\* toi_swap_write_header_init: back to the start, then the module's own
\* data, whose size the module has asked for.
toi_swap_write_header_init ==
    /\ pc = "st_ready0"
    /\ \E buffer_size \in 0..PageUnits :
          \E D \in {toi_rw_header_chunk([Writer EXCEPT !.posn = StartPosn, !.buffer_posn = 0],
                                        "toi_swapops", buffer_size, owner_requested,
                                        stream_chains)} :
             /\ SetWriter(D)
             /\ pc' = IF D.bug THEN "st_bug" ELSE "st_core"
    /\ UNCHANGED <<toi_writer_posn_save, current_stream, header_pages_allocated>>
    /\ StreamRest

\* The core's own header, of the size header_storage_needed counts, is
\* written with no owner.
WriteCoreHeader ==
    /\ pc = "st_core"
    /\ \E D \in {toi_rw_header_chunk(Writer, "none", CoreHeaderUnits, owner_requested,
                                     stream_chains)} :
          /\ SetWriter(D)
          /\ pc' = IF D.bug THEN "st_bug" ELSE "st_header"
    /\ UNCHANGED <<toi_writer_posn_save, current_stream, header_pages_allocated>>
    /\ StreamRest

\* A module writes a part of its configuration.
WriteModuleHeader ==
    /\ pc = "st_header"
    /\ \E owner \in Owners, buffer_size \in 1..PageUnits :
          /\ header_used[owner] <= owner_requested[owner]
          /\ \E D \in {toi_rw_header_chunk(Writer, owner, buffer_size, owner_requested,
                                           stream_chains)} :
                /\ SetWriter(D)
                /\ pc' = IF D.bug THEN "st_bug" ELSE "st_header"
    /\ UNCHANGED <<toi_writer_posn_save, current_stream, header_pages_allocated>>
    /\ StreamRest

\* toi_swap_write_header_cleanup, up to the signature.
toi_swap_write_header_cleanup ==
    /\ pc = "st_header"
    /\ \E D \in {write_header_chunk_finish(Writer, stream_chains)} :
          /\ SetWriter([D EXCEPT !.posn = IF D.bug THEN D.posn
                                          ELSE go_next_page(StartPosn, stream_chains)])
          /\ pc' = IF D.bug THEN "st_bug" ELSE "st_done"
    /\ UNCHANGED <<toi_writer_posn_save, current_stream, header_pages_allocated>>
    /\ StreamRest

NextStream ==
    \/ StreamAllocateHeaderSpace
    \/ toi_rw_init
    \/ toi_bio_write_page
    \/ toi_rw_cleanup
    \/ toi_swap_write_header_init
    \/ WriteCoreHeader
    \/ WriteModuleHeader
    \/ toi_swap_write_header_cleanup

SpecStream == InitStream /\ [][NextStream]_vars

(***************************************************************************)
(* The netlink channel of a userspace helper.  A message is handled by     *)
(* suspend_nl_gen_rcv_msg once the channel's own handler has passed it on; *)
(* nlmsg_pid is what the sender wrote in the message.                      *)
(***************************************************************************)
EBUSY == 16
EINVAL == 22

NlPids == 1..3
InterfaceVersions == {1, 2}

find_task_by_pid(pid) == pid \in nl_tasks

\* uhd is [pid, completed, interface_version]; flags is the set of the tasks with PF_NOFREEZE.
nl_set_nofreeze(uhd, flags, pid) ==
    IF ~find_task_by_pid(pid)
    THEN [uhd |-> uhd, flags |-> flags, err |-> 0 - EINVAL]
    ELSE [uhd |-> [uhd EXCEPT !.pid = pid], flags |-> flags \cup {pid}, err |-> 0]

nl_ready(uhd, version) ==
    IF version # uhd.interface_version
    THEN [uhd |-> uhd, err |-> 1]
    ELSE [uhd |-> [uhd EXCEPT !.completed = TRUE], err |-> 0]

suspend_netlink_close_complete(uhd) == [uhd EXCEPT !.pid = 0 - 1]

extra_nofreeze(type, uhd) == type = "NETLINK_MSG_NOFREEZE_ME" /\ uhd.pid # 0 - 1

suspend_nl_gen_rcv_msg(uhd, flags, msg) ==
    IF extra_nofreeze(msg.type, uhd)
    THEN [uhd |-> uhd, flags |-> flags, err |-> 0 - EBUSY]
    ELSE CASE msg.type = "NETLINK_MSG_NOFREEZE_ME" ->
                 nl_set_nofreeze(uhd, flags, msg.pid)
           [] msg.type = "NETLINK_MSG_GET_DEBUGGING" ->
                 [uhd |-> uhd, flags |-> flags, err |-> 0]
           [] msg.type = "NETLINK_MSG_READY" ->
                 IF msg.short
                 THEN [uhd |-> uhd, flags |-> flags, err |-> 0 - EINVAL]
                 ELSE [uhd |-> nl_ready(uhd, msg.data).uhd, flags |-> flags,
                       err |-> nl_ready(uhd, msg.data).err]
           [] msg.type = "NETLINK_MSG_CLEANUP" ->
                 [uhd |-> suspend_netlink_close_complete(uhd), flags |-> flags,
                  err |-> 0]

suspend_netlink_close(uhd, flags) ==
    IF find_task_by_pid(uhd.pid) THEN flags \ {uhd.pid} ELSE flags

NlMessages ==
    [type : {"NETLINK_MSG_NOFREEZE_ME"}, pid : NlPids, short : {FALSE}, data : {0}]
    \cup [type : {"NETLINK_MSG_GET_DEBUGGING", "NETLINK_MSG_CLEANUP"}, pid : NlPids,
          short : {FALSE}, data : {0}]
    \cup [type : {"NETLINK_MSG_READY"}, pid : NlPids, short : BOOLEAN,
          data : InterfaceVersions]

NlRest ==
    UNCHANGED <<toi_result, toi_action, tries, page_vars, pd_vars, hist_vars,
                prep_vars, atomic_log, load_vars, swap_vars, sig_vars, stream_vars,
                more_vars>>

KernelAtRest ==
    /\ high_start = max_pfn
    /\ RunAtRest
    /\ toi_result = {}
    /\ toi_action = {}
    /\ tries = 1
    /\ retval = 0
    /\ pagedir1 = [size |-> 0, highmem |-> 0]
    /\ pagedir2 = [size |-> 0, highmem |-> 0]
    /\ extra_pages_allocated = 0
    /\ extra_pd1_pages_allowance = 0
    /\ PagesAtRest
    /\ PrepareAtRest
    /\ AtomicAtRest
    /\ LoadAtRest
    /\ SwapAtRest
    /\ SigAtRest
    /\ StreamAtRest

NlBase ==
    /\ pc = "nl_open"
    /\ KernelAtRest

InitNl ==
    /\ NlBase
    /\ MoreAtRest
    /\ user_helper_data = [pid |-> 0 - 1, completed |-> FALSE, interface_version |-> 1]
    /\ nl_tasks \in SUBSET NlPids
    /\ task_nofreeze = {}
    /\ nl_err = 0
    /\ nl_last = <<>>

\* A message comes in on the channel's socket.
NlReceive ==
    /\ pc = "nl_open"
    /\ \E msg \in NlMessages :
          \E r \in {suspend_nl_gen_rcv_msg(user_helper_data, task_nofreeze, msg)} :
             /\ user_helper_data' = r.uhd
             /\ task_nofreeze' = r.flags
             /\ nl_err' = r.err
             /\ nl_last' = msg
    /\ UNCHANGED <<pc, nl_tasks>>
    /\ NlRest

\* The kernel closes the channel.
NlClose ==
    /\ pc = "nl_open"
    /\ task_nofreeze' = suspend_netlink_close(user_helper_data, task_nofreeze)
    /\ nl_last' = [type |-> "close", pid |-> 0, short |-> FALSE, data |-> 0]
    /\ UNCHANGED <<pc, user_helper_data, nl_tasks, nl_err>>
    /\ NlRest

\* A task ends, and its flags with it.
NlTaskExits ==
    /\ pc = "nl_open"
    /\ \E t \in nl_tasks :
          /\ nl_tasks' = nl_tasks \ {t}
          /\ task_nofreeze' = task_nofreeze \ {t}
    /\ nl_last' = [type |-> "exit", pid |-> 0, short |-> FALSE, data |-> 0]
    /\ UNCHANGED <<pc, user_helper_data, nl_err>>
    /\ NlRest

NextNl ==
    \/ NlReceive
    \/ NlClose
    \/ NlTaskExits

SpecNl == InitNl /\ [][NextNl]_vars

(***************************************************************************)
(* The attention list of suspend_mark_pages_for_pageset2: the tasks that   *)
(* are PF_NOFREEZE or current are counted in one read section of           *)
(* tasklist_lock, the list is allocated, and the tasks are written into    *)
(* it in a second read section.  nl_set_nofreeze and suspend_netlink_close *)
(* change PF_NOFREEZE under the read lock too, so that nothing keeps them  *)
(* out of either section or from between them.  Task 0 is current.         *)
(***************************************************************************)
AttLast == 3
AttGarbage == 0 - 1

task_exists(p) == p = 0 \/ p \in nl_tasks

\* lines 151 and 174: (p->flags & PF_NOFREEZE) || p == current
needs_attention(p, flags) == p \in flags \/ p = 0

AttRest ==
    UNCHANGED <<pc, toi_action, tries, page_vars, pd_vars, hist_vars, prep_vars,
                atomic_log, load_vars, swap_vars, sig_vars, stream_vars, nl_vars,
                bio_vars, wq_vars, ra_vars, uhd_vars,
                run_vars>>

InitAtt ==
    /\ NlBase
    /\ BioAtRest
    /\ WqAtRest
    /\ RaAtRest
    /\ UhdAtRest
    /\ nl_tasks \in SUBSET NlPids
    /\ \E helper \in nl_tasks \cup {AttGarbage} :
          /\ user_helper_data = [pid |-> helper, completed |-> helper # AttGarbage,
                                 interface_version |-> 1]
          /\ task_nofreeze = {helper} \cap nl_tasks
    /\ nl_err = 0
    /\ nl_last = <<>>
    /\ att_pc = "at_count"
    /\ att_cursor = 0
    /\ task_count = 0
    /\ attention_list = <<>>
    /\ att_next = 0
    /\ att_processed = <<>>

\* lines 149-153: one step of the counting pass
AttCountStep ==
    /\ att_pc = "at_count"
    /\ task_count' = IF task_exists(att_cursor)
                        /\ needs_attention(att_cursor, task_nofreeze)
                     THEN task_count + 1 ELSE task_count
    /\ IF att_cursor < AttLast
       THEN att_cursor' = att_cursor + 1 /\ att_pc' = att_pc
       ELSE att_cursor' = 0 /\ att_pc' = "at_alloc"
    /\ UNCHANGED <<toi_result, attention_list, att_next, att_processed>>
    /\ AttRest

\* lines 158-172: the list is allocated, task_count entries of kmalloc
\* memory whose task field is not written; an allocation that fails ends
\* the loop with what has been allocated
AttAllocate ==
    /\ att_pc = "at_alloc"
    /\ \E got \in 0..task_count :
          /\ attention_list' = [k \in 1..got |->
                                  [task |-> AttGarbage, assigned |-> FALSE]]
          /\ IF got < task_count
             THEN /\ toi_result' = set_abort_result(toi_result,
                                                    "UNABLE_TO_PREPARE_IMAGE")
                  /\ att_pc' = "at_free"
                  /\ att_next' = att_next
             ELSE /\ toi_result' = toi_result
                  /\ att_pc' = "at_fill"
                  /\ att_next' = 1
    /\ UNCHANGED <<att_cursor, task_count, att_processed>>
    /\ AttRest

\* lines 173-179: one step of the fill pass; 'next' past the last entry is
\* NULL, and next->task = p is then a write through NULL
AttFillStep ==
    /\ att_pc = "at_fill"
    /\ IF task_exists(att_cursor) /\ needs_attention(att_cursor, task_nofreeze)
       THEN IF att_next > Len(attention_list)
            THEN /\ att_pc' = "at_fault"
                 /\ UNCHANGED <<attention_list, att_next, att_cursor>>
            ELSE /\ attention_list' = [attention_list EXCEPT
                                         ![att_next] = [task |-> att_cursor,
                                                        assigned |-> TRUE]]
                 /\ att_next' = att_next + 1
                 /\ IF att_cursor < AttLast
                    THEN att_cursor' = att_cursor + 1 /\ att_pc' = att_pc
                    ELSE att_cursor' = 0 /\ att_pc' = "at_free"
       ELSE /\ UNCHANGED <<attention_list, att_next>>
            /\ IF att_cursor < AttLast
               THEN att_cursor' = att_cursor + 1 /\ att_pc' = att_pc
               ELSE att_cursor' = 0 /\ att_pc' = "at_free"
    /\ UNCHANGED <<toi_result, task_count, att_processed>>
    /\ AttRest

\* lines 186-194: one turn of the loop at free_attention_list
AttFreeStep ==
    /\ att_pc = "at_free"
    /\ IF attention_list # <<>>
       THEN /\ att_processed' = IF ~test_result_state(toi_result, "ABORTED")
                                THEN Append(att_processed, Head(attention_list))
                                ELSE att_processed
            /\ attention_list' = Tail(attention_list)
            /\ att_pc' = att_pc
       ELSE /\ att_pc' = "at_done"
            /\ UNCHANGED <<attention_list, att_processed>>
    /\ UNCHANGED <<toi_result, att_cursor, task_count, att_next>>
    /\ AttRest

NextAtt ==
    \/ AttCountStep
    \/ AttAllocate
    \/ AttFillStep
    \/ AttFreeStep
    \/ NlReceive
    \/ NlClose

SpecAtt == InitAtt /\ [][NextAtt]_vars

(***************************************************************************)
(* The completion of block i/o.  One thread submits pages, waits and       *)
(* cleans up (it holds toi_bio_mutex); toi_end_bio runs in the completion  *)
(* context of each bio, on any processor, and its steps run between the    *)
(* steps of the thread.  An io_info is "busy" from submit on, "moved" once *)
(* toi_end_bio has put it on ioinfo_ready_for_cleanup and unlocked its     *)
(* page, "decd" once toi_io_in_progress is decremented and "ended" once    *)
(* toi_io_to_cleanup is incremented.                                       *)
(***************************************************************************)
MaxIos == 3
CLEANUP_BATCH_SIZE == 16

Ios == 1..MaxIos

\* toi_bio_cleanup_one, lines 110-145: B is [cleaned, to_cleanup]
toi_bio_cleanup_one(B, io) ==
    [cleaned |-> [B.cleaned EXCEPT ![io] = @ + 1],
     to_cleanup |-> B.to_cleanup - 1]

PageLocked(io) == io_state[io] = "busy"

Without(list, io) == SelectSeq(list, LAMBDA x : x # io)

BioRest ==
    UNCHANGED <<pc, toi_result, toi_action, tries, page_vars, pd_vars, hist_vars,
                prep_vars, atomic_log, load_vars, swap_vars, sig_vars, stream_vars,
                nl_vars, att_vars, wq_vars, ra_vars, uhd_vars,
                run_vars>>

InitBio ==
    /\ pc = "bio"
    /\ KernelAtRest
    /\ NlAtRest
    /\ AttAtRest
    /\ WqAtRest
    /\ RaAtRest
    /\ UhdAtRest
    /\ bio_pc = "bio_run"
    /\ io_state = [io \in Ios |-> "none"]
    /\ io_cleaned = [io \in Ios |-> 0]
    /\ ioinfo_ready_for_cleanup = <<>>
    /\ toi_io_in_progress = 0
    /\ toi_io_to_cleanup = 0
    /\ waiting_on = 0
    /\ num_cleaned = 0

\* submit, lines 344-386, from toi_do_io; with syncio the page is waited on
BioSubmit ==
    /\ bio_pc = "bio_run"
    /\ \E io \in Ios : \E syncio \in BOOLEAN :
          /\ io_state[io] = "none"
          /\ \A j \in Ios : j < io => io_state[j] # "none"
          /\ io_state' = [io_state EXCEPT ![io] = "busy"]
          /\ toi_io_in_progress' = toi_io_in_progress + 1
          /\ waiting_on' = IF syncio THEN io ELSE waiting_on
          /\ bio_pc' = IF syncio THEN "bio_wait" ELSE bio_pc
    /\ UNCHANGED <<io_cleaned, ioinfo_ready_for_cleanup, toi_io_to_cleanup,
                   num_cleaned>>
    /\ BioRest

\* toi_end_bio, lines 305-319: off the busy list, onto the ready list, and
\* the page unlocked
EndBioMove ==
    /\ \E io \in Ios :
          /\ io_state[io] = "busy"
          /\ io_state' = [io_state EXCEPT ![io] = "moved"]
          /\ ioinfo_ready_for_cleanup' = Append(ioinfo_ready_for_cleanup, io)
    /\ UNCHANGED <<bio_pc, io_cleaned, toi_io_in_progress, toi_io_to_cleanup,
                   waiting_on, num_cleaned>>
    /\ BioRest

\* toi_end_bio, line 321: atomic_dec(&toi_io_in_progress)
EndBioDec ==
    /\ \E io \in Ios :
          /\ io_state[io] = "moved"
          /\ io_state' = [io_state EXCEPT ![io] = "decd"]
    /\ toi_io_in_progress' = toi_io_in_progress - 1
    /\ UNCHANGED <<bio_pc, io_cleaned, ioinfo_ready_for_cleanup, toi_io_to_cleanup,
                   waiting_on, num_cleaned>>
    /\ BioRest

\* toi_end_bio, lines 322-324: atomic_inc(&toi_io_to_cleanup) and the wake-up
EndBioInc ==
    /\ \E io \in Ios :
          /\ io_state[io] = "decd"
          /\ io_state' = [io_state EXCEPT ![io] = "ended"]
    /\ toi_io_to_cleanup' = toi_io_to_cleanup + 1
    /\ UNCHANGED <<bio_pc, io_cleaned, ioinfo_ready_for_cleanup, toi_io_in_progress,
                   waiting_on, num_cleaned>>
    /\ BioRest

\* do_bio_wait, lines 203-221, with waiting_on set: the wait for the page
\* to be unlocked, then the io_info taken off its list and cleaned up
DoBioWaitMine ==
    /\ bio_pc = "bio_wait"
    /\ waiting_on # 0
    /\ ~PageLocked(waiting_on)
    /\ \E B \in {toi_bio_cleanup_one([cleaned |-> io_cleaned,
                                        to_cleanup |-> toi_io_to_cleanup],
                                       waiting_on)} :
          /\ io_cleaned' = B.cleaned
          /\ toi_io_to_cleanup' = B.to_cleanup
    /\ ioinfo_ready_for_cleanup' = Without(ioinfo_ready_for_cleanup, waiting_on)
    /\ waiting_on' = 0
    /\ bio_pc' = "bio_run"
    /\ UNCHANGED <<io_state, toi_io_in_progress, num_cleaned>>
    /\ BioRest

\* do_bio_wait, lines 222-227, with nothing waited on:
\* toi_cleanup_completed_io(0) is entered
DoBioWaitAny ==
    /\ bio_pc = "bio_run"
    /\ waiting_on = 0
    /\ bio_pc' = "bio_clean_some"
    /\ num_cleaned' = 0
    /\ UNCHANGED <<io_state, io_cleaned, ioinfo_ready_for_cleanup,
                   toi_io_in_progress, toi_io_to_cleanup, waiting_on>>
    /\ BioRest

\* toi_finish_all_io, lines 235-237: the wait for toi_io_in_progress to be
\* zero, and toi_cleanup_completed_io(1) entered
toi_finish_all_io ==
    /\ bio_pc = "bio_run"
    /\ toi_io_in_progress = 0
    /\ bio_pc' = "bio_clean_all"
    /\ num_cleaned' = 0
    /\ UNCHANGED <<io_state, io_cleaned, ioinfo_ready_for_cleanup,
                   toi_io_in_progress, toi_io_to_cleanup, waiting_on>>
    /\ BioRest

\* toi_cleanup_completed_io, lines 161-182: one turn of its loop, or its end
toi_cleanup_completed_io ==
    /\ bio_pc \in {"bio_clean_some", "bio_clean_all"}
    /\ IF ioinfo_ready_for_cleanup # <<>>
          /\ ~(bio_pc = "bio_clean_some" /\ num_cleaned = CLEANUP_BATCH_SIZE)
       THEN \E this \in {Head(ioinfo_ready_for_cleanup)} :
            \E B \in {toi_bio_cleanup_one([cleaned |-> io_cleaned,
                                           to_cleanup |-> toi_io_to_cleanup],
                                          this)} :
               /\ ioinfo_ready_for_cleanup' = Tail(ioinfo_ready_for_cleanup)
               /\ waiting_on' = IF waiting_on = this THEN 0 ELSE waiting_on
               /\ io_cleaned' = B.cleaned
               /\ toi_io_to_cleanup' = B.to_cleanup
               /\ num_cleaned' = num_cleaned + 1
               /\ bio_pc' = bio_pc
       ELSE /\ bio_pc' = IF bio_pc = "bio_clean_all" THEN "bio_check"
                         ELSE "bio_run"
            /\ UNCHANGED <<ioinfo_ready_for_cleanup, waiting_on, io_cleaned,
                           toi_io_to_cleanup, num_cleaned>>
    /\ UNCHANGED <<io_state, toi_io_in_progress>>
    /\ BioRest

\* toi_finish_all_io, line 238: BUG_ON(atomic_read(&toi_io_to_cleanup))
FinishAllIoCheck ==
    /\ bio_pc = "bio_check"
    /\ bio_pc' = IF toi_io_to_cleanup # 0 THEN "bio_bug" ELSE "bio_run"
    /\ UNCHANGED <<io_state, io_cleaned, ioinfo_ready_for_cleanup,
                   toi_io_in_progress, toi_io_to_cleanup, waiting_on, num_cleaned>>
    /\ BioRest

NextBio ==
    \/ BioSubmit
    \/ EndBioMove
    \/ EndBioDec
    \/ EndBioInc
    \/ DoBioWaitMine
    \/ DoBioWaitAny
    \/ toi_finish_all_io
    \/ toi_cleanup_completed_io
    \/ FinishAllIoCheck

SpecBio == InitBio /\ [][NextBio]_vars

(***************************************************************************)
(* The queue of pages to write.  Threads that write pages of the image     *)
(* fill the writer's buffer under toi_bio_mutex, queue each full page with *)
(* toi_bio_queue_page_write, and then call toi_bio_queue_flush_pages,      *)
(* which gives up at once when another thread holds toi_bio_queue_mutex.   *)
(* Pages are numbered in the order in which they are queued.               *)
(***************************************************************************)
MaxQueued == 3
WqThreads == 1..2

\* toi_bio_queue_page_write, lines 842-878: the page joins the tail
toi_bio_queue_page_write(queue, page) == Append(queue, page)

\* mutex_trylock(&toi_bio_queue_mutex), line 816
mutex_trylock(holder) == holder = 0

WqRest ==
    UNCHANGED <<pc, toi_result, toi_action, tries, page_vars, pd_vars, hist_vars,
                prep_vars, atomic_log, load_vars, swap_vars, sig_vars,
                stream_chains, toi_writer_posn, toi_writer_posn_save,
                current_stream, owner_requested, header_used, io_log, bug_hit,
                nl_vars, att_vars, bio_vars, ra_vars, uhd_vars,
                run_vars>>

InitWq ==
    /\ pc = "wq"
    /\ KernelAtRest
    /\ NlAtRest
    /\ AttAtRest
    /\ BioAtRest
    /\ RaAtRest
    /\ UhdAtRest
    /\ bio_queue = <<>>
    /\ toi_bio_queue_mutex = 0
    /\ wq_thread = [t \in WqThreads |-> "idle"]
    /\ wq_submitted = <<>>
    /\ pages_queued = 0
    /\ wq_failed = FALSE
    /\ wq_done = FALSE

\* toi_bio_write_page, lines 964-983, up to DROP_BIO_MUTEX: the data goes
\* through toi_rw_buffer, which queues the page when it is full; what is
\* left in the buffer is toi_writer_buffer_posn
WqWritePage ==
    /\ ~wq_done
    /\ \A u \in WqThreads : wq_thread[u] \in {"idle", "to_flush", "flushing", "unlocking"}
    /\ \E t \in WqThreads : \E full \in BOOLEAN : \E posn \in 0..1 :
          /\ wq_thread[t] = "idle"
          /\ full => pages_queued < MaxQueued
          /\ wq_thread' = [wq_thread EXCEPT ![t] = "to_flush"]
          /\ toi_writer_buffer_posn' = posn
          /\ IF full
             THEN /\ bio_queue' = toi_bio_queue_page_write(bio_queue,
                                                          pages_queued + 1)
                  /\ pages_queued' = pages_queued + 1
             ELSE UNCHANGED <<bio_queue, pages_queued>>
    /\ UNCHANGED <<toi_bio_queue_mutex, wq_submitted, wq_failed, wq_done>>
    /\ WqRest

\* toi_bio_queue_flush_pages, lines 816-817: the mutex is taken, or the
\* function returns 0
WqFlushTry ==
    /\ \E t \in WqThreads :
          /\ wq_thread[t] \in {"to_flush", "cleanup_flush"}
          /\ IF mutex_trylock(toi_bio_queue_mutex)
             THEN /\ toi_bio_queue_mutex' = t
                  /\ wq_thread' = [wq_thread EXCEPT ![t] =
                        IF @ = "to_flush" THEN "flushing" ELSE "cleanup_flushing"]
                  /\ wq_done' = wq_done
             ELSE /\ toi_bio_queue_mutex' = toi_bio_queue_mutex
                  /\ wq_thread' = [wq_thread EXCEPT ![t] = "idle"]
                  /\ wq_done' = (wq_done \/ wq_thread[t] = "cleanup_flush")
    /\ UNCHANGED <<bio_queue, wq_submitted, pages_queued, wq_failed,
                   toi_writer_buffer_posn>>
    /\ WqRest

\* toi_bio_queue_flush_pages, lines 819-833: one turn of the loop; the
\* loop ends when the queue is seen empty or toi_bio_rw_page fails
WqFlushStep ==
    /\ \E t \in WqThreads : \E ok \in BOOLEAN :
          /\ wq_thread[t] \in {"flushing", "cleanup_flushing"}
          /\ IF bio_queue # <<>>
             THEN /\ bio_queue' = Tail(bio_queue)
                  /\ wq_submitted' = Append(wq_submitted, Head(bio_queue))
                  /\ wq_failed' = (wq_failed \/ ~ok)
                  /\ wq_thread' = IF ok THEN wq_thread
                                  ELSE [wq_thread EXCEPT ![t] =
                                          IF @ = "flushing" THEN "unlocking"
                                          ELSE "cleanup_unlocking"]
             ELSE /\ ok
                  /\ wq_thread' = [wq_thread EXCEPT ![t] =
                                      IF @ = "flushing" THEN "unlocking"
                                      ELSE "cleanup_unlocking"]
                  /\ UNCHANGED <<bio_queue, wq_submitted, wq_failed>>
    /\ UNCHANGED <<toi_bio_queue_mutex, pages_queued, wq_done,
                   toi_writer_buffer_posn>>
    /\ WqRest

\* toi_bio_queue_flush_pages, lines 834-836: mutex_unlock and the return
WqFlushUnlock ==
    /\ \E t \in WqThreads :
          /\ wq_thread[t] \in {"unlocking", "cleanup_unlocking"}
          /\ toi_bio_queue_mutex' = 0
          /\ wq_thread' = [wq_thread EXCEPT ![t] = "idle"]
          /\ wq_done' = (wq_done \/ wq_thread[t] = "cleanup_unlocking")
    /\ UNCHANGED <<bio_queue, wq_submitted, pages_queued, wq_failed,
                   toi_writer_buffer_posn>>
    /\ WqRest

\* toi_rw_cleanup(WRITE), lines 703-731, once the threads have written
\* their pages: a buffer that holds data is queued and the queue flushed
WqRwCleanup ==
    /\ ~wq_done
    /\ \A t \in WqThreads : wq_thread[t] = "idle"
    /\ IF toi_writer_buffer_posn # 0
       THEN /\ bio_queue' = toi_bio_queue_page_write(bio_queue, pages_queued + 1)
            /\ pages_queued' = pages_queued + 1
            /\ wq_thread' = [wq_thread EXCEPT ![1] = "cleanup_flush"]
            /\ wq_done' = wq_done
       ELSE /\ wq_done' = TRUE
            /\ UNCHANGED <<bio_queue, pages_queued, wq_thread>>
    /\ UNCHANGED <<toi_bio_queue_mutex, wq_submitted, wq_failed,
                   toi_writer_buffer_posn>>
    /\ WqRest

NextWq ==
    \/ WqWritePage
    \/ WqFlushTry
    \/ WqFlushStep
    \/ WqFlushUnlock
    \/ WqRwCleanup

SpecWq == InitWq /\ [][NextWq]_vars

(***************************************************************************)
(* The readahead ring.  toi_bio_read_page_with_readahead submits reads for *)
(* the slots from ra_submit_index on and copies the slot at                *)
(* readahead_index once it is ready.  The pages of the image are numbered  *)
(* in the order in which they lie on storage; a read is submitted with     *)
(* toi_bio_rw_page, which fails when go_next_page meets the end of the     *)
(* storage.  A read in flight completes, and is cleaned up, at any time.   *)
(***************************************************************************)
MaxReadahead == 3
MaxStoragePages == 4
MaxReads == 6
EIO == 5

RaSlots == 0..(max_readahead - 1)

\* toi_readahead_ready, lines 247-253
toi_readahead_ready(flags, index) == flags[index]

\* lines 783-786 and 799-801: the index goes round the ring
ra_advance(index, max) == IF index + 1 = max THEN 0 ELSE index + 1

\* the test of the do-while, lines 790-791
ra_submit_more(result, submit_index, index, flags) ==
    result = 0 /\ submit_index # index /\ ~toi_readahead_ready(flags, index)

RaRest ==
    UNCHANGED <<pc, toi_action, tries, page_vars, pd_vars, hist_vars, prep_vars,
                atomic_log, load_vars, swap_vars, sig_vars, stream_vars, nl_vars,
                att_vars, bio_vars, wq_vars, uhd_vars,
                run_vars>>

InitRa ==
    /\ pc = "ra"
    /\ KernelAtRest
    /\ NlAtRest
    /\ AttAtRest
    /\ BioAtRest
    /\ WqAtRest
    /\ UhdAtRest
    /\ ra_pc = "ra_idle"
    /\ max_readahead \in 1..MaxReadahead
    /\ readahead_index = 0 - 1
    /\ ra_submit_index = 0 - 1
    /\ last_result = 0
    /\ toi_readahead_flags = [i \in RaSlots |-> FALSE]
    /\ toi_ra_pages = [i \in RaSlots |-> 0]
    /\ ra_pending = {}
    /\ ra_unconsumed = {}
    /\ ra_storage_left \in 0..MaxStoragePages
    /\ ra_log = [consumed |-> <<>>, submitted |-> 0, overrun |-> FALSE, result |-> 0]

\* toi_bio_read_page_with_readahead, lines 741-762: the entry
RaEnter ==
    /\ ra_pc = "ra_idle"
    /\ Len(ra_log.consumed) < MaxReads
    /\ LET first == readahead_index = 0 - 1
           ri == IF first THEN 0 ELSE readahead_index
           rs == IF first THEN 0 ELSE ra_submit_index
           lr == IF first THEN 0 ELSE last_result
       IN  /\ readahead_index' = ri
           /\ ra_submit_index' = rs
           /\ last_result' = lr
           /\ IF lr # 0
              THEN IF rs = ri
                   THEN /\ toi_result' = set_abort_result(toi_result, "FAILED_IO")
                        /\ ra_log' = [ra_log EXCEPT !.result = 0 - EIO]
                        /\ ra_pc' = "ra_idle"
                   ELSE /\ ra_pc' = "ra_wait"
                        /\ UNCHANGED <<toi_result, ra_log>>
              ELSE /\ ra_pc' = "ra_submit"
                   /\ UNCHANGED <<toi_result, ra_log>>
    /\ UNCHANGED <<max_readahead, toi_readahead_flags, toi_ra_pages, ra_pending,
                   ra_unconsumed, ra_storage_left>>
    /\ RaRest

\* lines 764-791: one turn of the do-while; toi_bio_rw_page fails in
\* go_next_page, before toi_do_io has cleared the slot's ready bit
RaSubmitStep ==
    /\ ra_pc = "ra_submit"
    /\ IF ra_storage_left = 0
       THEN /\ last_result' = 0 - ENODATA
            /\ ra_pc' = "ra_wait"
            /\ UNCHANGED <<ra_submit_index, toi_readahead_flags, toi_ra_pages,
                           ra_pending, ra_unconsumed, ra_storage_left, ra_log>>
       ELSE /\ last_result' = 0
            /\ toi_readahead_flags' = [toi_readahead_flags EXCEPT
                                         ![ra_submit_index] = FALSE]
            /\ toi_ra_pages' = [toi_ra_pages EXCEPT
                                  ![ra_submit_index] = ra_log.submitted + 1]
            /\ ra_pending' = ra_pending \cup {ra_submit_index}
            /\ ra_unconsumed' = ra_unconsumed \cup {ra_submit_index}
            /\ ra_storage_left' = ra_storage_left - 1
            /\ ra_log' = [ra_log EXCEPT
                            !.submitted = @ + 1,
                            !.overrun = @ \/ ra_submit_index \in ra_unconsumed]
            /\ ra_submit_index' = ra_advance(ra_submit_index, max_readahead)
            /\ ra_pc' = IF ra_submit_more(0, ra_submit_index', readahead_index,
                                          toi_readahead_flags')
                        THEN "ra_submit" ELSE "ra_wait"
    /\ UNCHANGED <<toi_result, max_readahead, readahead_index>>
    /\ RaRest

\* toi_end_bio and toi_bio_cleanup_one for a read of the ring: the slot's
\* ready bit is set
RaComplete ==
    /\ \E slot \in ra_pending :
          /\ ra_pending' = ra_pending \ {slot}
          /\ toi_readahead_flags' = [toi_readahead_flags EXCEPT ![slot] = TRUE]
    /\ UNCHANGED <<toi_result, ra_pc, max_readahead, readahead_index,
                   ra_submit_index, last_result, toi_ra_pages, ra_unconsumed,
                   ra_storage_left, ra_log>>
    /\ RaRest

\* lines 793-805: toi_wait_on_readahead and the copy.  A slot whose bit is
\* clear is waited for with do_bio_wait; when no read of it is in flight
\* its page is not locked and page->private is no io_info.
RaWaitAndCopy ==
    /\ ra_pc = "ra_wait"
    /\ IF toi_readahead_ready(toi_readahead_flags, readahead_index)
       THEN /\ ra_log' = [ra_log EXCEPT
                            !.consumed = Append(@, toi_ra_pages[readahead_index]),
                            !.result = 0]
            /\ ra_unconsumed' = ra_unconsumed \ {readahead_index}
            /\ readahead_index' = ra_advance(readahead_index, max_readahead)
            /\ ra_pc' = "ra_idle"
       ELSE /\ readahead_index \notin ra_pending
            /\ ra_pc' = "ra_fault"
            /\ UNCHANGED <<ra_log, ra_unconsumed, readahead_index>>
    /\ UNCHANGED <<toi_result, max_readahead, ra_submit_index, last_result,
                   toi_readahead_flags, toi_ra_pages, ra_pending, ra_storage_left>>
    /\ RaRest

NextRa ==
    \/ RaEnter
    \/ RaSubmitStep
    \/ RaComplete
    \/ RaWaitAndCopy

SpecRa == InitRa /\ [][NextRa]_vars

(***************************************************************************)
(* The channels of the userspace helpers and their pools of buffers.  Each *)
(* helper has a user_helper_data; suspend_netlink_setup opens its channel  *)
(* and suspend_netlink_close_complete closes it, once for each cycle.  A   *)
(* pool is the list emerg_skbs, of which the model keeps the length, and   *)
(* the counter pool_level.                                                 *)
(***************************************************************************)
MaxPool == 2
MaxSkbs == 3

Uhds == {"userui", "storage_manager"}

\* suspend_fill_skb_pool, lines 23-37: alloc_skb succeeds 'allocs' times
suspend_fill_skb_pool(u, allocs) ==
    IF u.pool_level < u.pool_limit
    THEN [u EXCEPT !.pool_level = @ + Min(allocs, u.pool_limit - u.pool_level),
                   !.emerg_skbs = @ + Min(allocs, u.pool_limit - u.pool_level)]
    ELSE u

\* suspend_get_skb, lines 43-58
suspend_get_skb(u, alloc_ok) ==
    IF alloc_ok THEN [u |-> u, skb |-> TRUE]
    ELSE IF u.emerg_skbs > 0
         THEN [u |-> [u EXCEPT !.pool_level = @ - 1, !.emerg_skbs = @ - 1],
               skb |-> TRUE]
         ELSE [u |-> u, skb |-> FALSE]

\* put_skb, lines 60-67
put_skb(u) ==
    IF u.pool_level < u.pool_limit
    THEN [u EXCEPT !.emerg_skbs = @ + 1]
    ELSE u

\* suspend_netlink_close_complete, lines 167-183, for the socket and the pool
close_complete_pool(u) == [u EXCEPT !.nl = FALSE, !.emerg_skbs = 0]

\* netlink_prepare, lines 272-291; head is uhd_list
netlink_prepare(name, u, head, socket_ok, allocs) ==
    LET linked == [u EXCEPT !.next = head]
    IN  IF socket_ok
        THEN [u |-> suspend_fill_skb_pool([linked EXCEPT !.nl = TRUE], allocs),
              head |-> name, result |-> 0]
        ELSE [u |-> linked, head |-> name, result |-> 0 - ENOMEM]

UhdRest ==
    UNCHANGED <<pc, toi_result, toi_action, tries, page_vars, pd_vars, hist_vars,
                prep_vars, atomic_log, load_vars, swap_vars, sig_vars, stream_vars,
                nl_vars, att_vars, bio_vars, wq_vars, ra_vars,
                run_vars>>

InitUhd ==
    /\ pc = "uhd"
    /\ KernelAtRest
    /\ NlAtRest
    /\ AttAtRest
    /\ BioAtRest
    /\ WqAtRest
    /\ RaAtRest
    /\ \E limit \in [Uhds -> 1..MaxPool] :
          uhds = [n \in Uhds |-> [pool_level |-> 0, emerg_skbs |-> 0,
                                  pool_limit |-> limit[n], nl |-> FALSE,
                                  next |-> "NULL"]]
    /\ uhd_list = "NULL"

\* suspend_netlink_setup, lines 359-384: netlink_prepare, then the helper
\* is started and makes contact, or the channel is closed again
suspend_netlink_setup ==
    /\ \E n \in Uhds : \E socket_ok \in BOOLEAN : \E allocs \in 0..MaxPool :
       \E contact \in BOOLEAN :
          /\ ~uhds[n].nl
          /\ \E r \in {netlink_prepare(n, uhds[n], uhd_list, socket_ok, allocs)} :
                /\ uhd_list' = r.head
                /\ uhds' = [uhds EXCEPT ![n] =
                              IF r.result = 0 /\ ~contact
                              THEN close_complete_pool(r.u) ELSE r.u]
    /\ UhdRest

\* suspend_netlink_close_complete, lines 167-183
NetlinkCloseComplete ==
    /\ \E n \in Uhds :
          /\ uhds[n].nl
          /\ uhds' = [uhds EXCEPT ![n] = close_complete_pool(@)]
    /\ UNCHANGED uhd_list
    /\ UhdRest

\* suspend_send_netlink_message, lines 68-112: a buffer is taken; it goes
\* out with netlink_unicast, or NLMSG_PUT fails and it is put back
suspend_send_netlink_message ==
    /\ \E n \in Uhds : \E alloc_ok \in BOOLEAN : \E nlmsg_failure \in BOOLEAN :
          /\ uhds[n].nl
          /\ uhds[n].pool_level > 0 - MaxSkbs
          /\ \E g \in {suspend_get_skb(uhds[n], alloc_ok)} :
                uhds' = [uhds EXCEPT ![n] =
                           IF g.skb /\ nlmsg_failure /\ g.u.emerg_skbs < MaxSkbs
                           THEN put_skb(g.u) ELSE g.u]
    /\ UNCHANGED uhd_list
    /\ UhdRest

\* suspend_netlink_input, lines 256-270: a buffer taken off the socket's
\* queue is handled and then given to put_skb
suspend_netlink_input ==
    /\ \E n \in Uhds :
          /\ uhds[n].nl
          /\ uhds[n].emerg_skbs < MaxSkbs
          /\ uhds' = [uhds EXCEPT ![n] = put_skb(@)]
    /\ UNCHANGED uhd_list
    /\ UhdRest

NextUhd ==
    \/ suspend_netlink_setup
    \/ NetlinkCloseComplete
    \/ suspend_send_netlink_message
    \/ suspend_netlink_input

SpecUhd == InitUhd /\ [][NextUhd]_vars

(***************************************************************************)
(* Properties of the page-frame level.                                     *)
(***************************************************************************)
\* a classification pass has run and nothing has changed memory since
AfterPass == pc \in {"pg_eaten", "pg_updated", "pg_aborted", "pg_done"}

\* the frames flag_image_pages looks at
Scanned == Pfns \ pfn_invalid

\* the classes, read from the page flags the pass leaves
ClassFree == page_nosave_free \cap Scanned
ClassNosave == {p \in Scanned \ ClassFree : p \in page_nosave \/ p \in unsaveable}
ClassPs1 == pageset1_map
ClassPs2 == {p \in Scanned \ (ClassFree \cup ClassNosave) : p \in pageset2_map}
NumClasses(p) ==
    Cardinality({i \in 1..4 : p \in <<ClassFree, ClassNosave, ClassPs1, ClassPs2>>[i]})
ResavedPs2 == ClassPs2 \cap page_resave

\* C1 as stated: after every classification pass every valid frame is in
\* exactly one of the classes nosave, pageset1, pageset2 or free, and
\* pagedir1.size + pagedir2.size + num_nosave + num_free is the number of
\* frames scanned.
C1_ExactlyOneClass ==
    AfterPass =>
        /\ \A p \in Scanned : NumClasses(p) = 1
        /\ pagedir1.size + pagedir2.size + num_nosave + num_free
              = Cardinality(Scanned)

\* C1 as amended: after every classification pass every valid frame is in
\* exactly one class, except a pageset2 page flagged Resave, which is in
\* pageset1 and in pageset2 and is counted in both sizes; each counter is the
\* size of its class and the four counters add up to the frames scanned plus
\* the Resave pageset2 pages.
C1_OneClassOrResaved ==
    AfterPass =>
        /\ \A p \in Scanned : NumClasses(p) = IF p \in ResavedPs2 THEN 2 ELSE 1
        /\ ResavedPs2 \subseteq ClassPs1
        /\ pagedir1.size = Cardinality(ClassPs1)
        /\ pagedir2.size = Cardinality(ClassPs2)
        /\ num_nosave = Cardinality(ClassNosave)
        /\ num_free = Cardinality(ClassFree)
        /\ pagedir1.size + pagedir2.size + num_nosave + num_free
              = Cardinality(Scanned) + Cardinality(ResavedPs2)

\* C1's case: a pass has classified free, nosave, pageset1 and Resave
\* pageset2 frames
C1_Witness ==
    /\ pc = "pg_updated"
    /\ ResavedPs2 # {}
    /\ ClassFree # {}
    /\ ClassNosave # {}
    /\ ClassPs1 \ ResavedPs2 # {}

\* C2: at the end of every classification pass no page is both Pageset1 and
\* Pageset1Copy, Resave pageset2 pages and the extra pages included.
C2_CopyDisjointFromPageset1 ==
    AfterPass => pageset1_map \cap pageset1_copy_map = {}

\* C2's case: the freeze-window pass has run with extra pages allocated, a
\* Resave pageset2 page in pageset1 and copy pages flagged
C2_Witness ==
    /\ pc = "pg_done"
    /\ extra_pages_allocated > 0
    /\ ResavedPs2 # {}
    /\ pageset1_copy_map # {}

\* the i-th set bit of a bitmap, i counted from 0
NthBit(S, i) == CHOOSE p \in S : Cardinality({q \in S : q < p}) = i

C4_GrowthDecidesCopy ==
    pc = "pg_done" =>
        IF extra_pd1_pages_used > extra_pd1_pages_allowance
        THEN /\ {"EXTRA_PAGES_ALLOW_TOO_SMALL", "ABORTED"} \subseteq toi_result
             /\ retval = 0 - 1
             /\ ~copy_done
        ELSE copy_done

\* C4 as amended: growth beyond the allowance records the abort, returns -1
\* and does not copy; growth of at most the allowance returns 0 without an
\* abort, and the copy runs unless TEST_FILTER_SPEED or TEST_BIO is set.
C4_GrowthDecidesCopyUnlessTesting ==
    pc = "pg_done" =>
        IF extra_pd1_pages_used > extra_pd1_pages_allowance
        THEN /\ {"EXTRA_PAGES_ALLOW_TOO_SMALL", "ABORTED"} \subseteq toi_result
             /\ retval = 0 - 1
             /\ ~copy_done
        ELSE /\ retval = 0
             /\ "ABORTED" \notin toi_result
             /\ copy_done <=> /\ "TEST_FILTER_SPEED" \notin toi_action
                              /\ "TEST_BIO" \notin toi_action

\* C4's case: pagedir1 grew in the freeze window by more than the allowance
C4_Witness ==
    /\ pc = "pg_done"
    /\ extra_pd1_pages_used > extra_pd1_pages_allowance
    /\ extra_pages_allocated > 0


(***************************************************************************)
(* Properties of suspend_prepare_image.                                    *)
(***************************************************************************)
PrepareDone == pc = "prep_done"

\* suspend_prepare_image returned 0 and no abort is recorded
Ready == retval = 0 /\ ~test_result_state(toi_result, "ABORTED")

\* the eat_memory/update_image iterations begun so far
Iterations == tries - 1

\* Every freeze succeeded, every storage request was granted and every
\* shrink_one_zone call freed what it was asked to
Cooperative == ~freeze_failed /\ storage_exact /\ shrink_exact

\* C5, as stated and read in its favour (some storage exists and the policy
\* allows reclaim): when freezing always succeeds, storage allocation grants
\* what is asked and every shrink_one_zone call frees exactly the requested
\* number of pages, suspend_prepare_image ends Ready after at most 2
\* iterations.
C5_CooperativeReachesReady ==
    (PrepareDone /\ Cooperative /\ storage_available > 0
        /\ image_size_limit # 0 - 1)
    => (Ready /\ Iterations <= MAX_TRIES)

\* C5, amended: under the same conditions suspend_prepare_image ends Ready
\* after at most 2 iterations provided that the expected compression ratio
\* is 100 and that every page shrink_one_zone freed was a pageset1 page.
C5_CooperativePageset1ReachesReady ==
    (PrepareDone /\ Cooperative /\ storage_available > 0
        /\ image_size_limit # 0 - 1
        /\ expected_compression_ratio = 100 /\ reclaimed.ps2 = 0)
    => (Ready /\ Iterations <= MAX_TRIES)

\* Reclaim took place, only of pageset1 pages, and the image became ready
C5_Witness ==
    /\ PrepareDone /\ Cooperative /\ Ready
    /\ expected_compression_ratio = 100
    /\ reclaimed.ps2 = 0 /\ reclaimed.ps1 > 0
    /\ lowpages_ps1_to_free(CountsNow) = 0

\* The smallest image reclaim can reach is the pinned pages; the storage
\* cannot hold even that
StorageBelowMinimum ==
    storage_available
        < CDiv((pinned.low + pinned.high) * expected_compression_ratio, 100)

EarlierAborts == {"FREEZING_FAILED", "NOSTORAGE_AVAILABLE", "WOULD_EAT_MEMORY"}

\* C6, as stated: when the storage available is below the smallest image
\* size reclaim can reach, suspend_prepare_image ends after at most MAX_TRIES
\* iterations, returns nonzero with UNABLE_TO_PREPARE_IMAGE recorded, and
\* never reports Ready.
C6_NoStorageUnableToPrepare ==
    /\ StorageBelowMinimum => ~lru_unlinked /\ Iterations <= MAX_TRIES
    /\ (PrepareDone /\ StorageBelowMinimum)
       => /\ retval # 0
          /\ test_result_state(toi_result, "UNABLE_TO_PREPARE_IMAGE")

\* C6, amended: under that condition suspend_prepare_image ends after at
\* most MAX_TRIES iterations, returns nonzero with ABORTED recorded and
\* never reports Ready; the reason recorded is UNABLE_TO_PREPARE_IMAGE
\* exactly when no earlier abort (FREEZING_FAILED, NOSTORAGE_AVAILABLE,
\* WOULD_EAT_MEMORY) was recorded, and NOSTORAGE_AVAILABLE exactly when no
\* storage is available at all and the first freeze succeeded.
C6_NoStorageFails ==
    /\ StorageBelowMinimum => ~lru_unlinked /\ Iterations <= MAX_TRIES
    /\ (PrepareDone /\ StorageBelowMinimum)
       => /\ retval # 0
          /\ test_result_state(toi_result, "ABORTED")
          /\ test_result_state(toi_result, "UNABLE_TO_PREPARE_IMAGE")
                <=> toi_result \cap EarlierAborts = {}
          /\ test_result_state(toi_result, "NOSTORAGE_AVAILABLE")
                <=> (storage_available = 0 /\ ~freeze_failed)

\* Both iterations ran against storage that is present but too small
C6_Witness ==
    /\ PrepareDone /\ StorageBelowMinimum /\ storage_available > 0
    /\ Iterations = MAX_TRIES
    /\ reclaimed.ps1 + reclaimed.ps2 > 0
    /\ test_result_state(toi_result, "UNABLE_TO_PREPARE_IMAGE")

\* C7, as stated: suspend_prepare_image reports Ready only if amount_needed,
\* with the shortfall against the user's image size limit counted when a
\* limit is set, is at most 0, the header space allocated covers
\* header_storage_needed() and the main storage allocated covers
\* main_storage_needed with the expected compression ratio.
C7_ReadyOnlyIfAllConditions ==
    (PrepareDone /\ Ready)
    => /\ amount_needed(CountsNow, TRUE) <= 0
       /\ header_space_allocated >= header_storage_needed
       /\ main_storage_allocated >= main_storage_needed(CountsNow, TRUE, TRUE)

\* C7, amended: suspend_prepare_image returns 0 only if amount_needed,
\* computed without the user's image size limit, is at most 0, the header
\* space allocated covers header_storage_needed() and the main storage
\* allocated covers main_storage_needed with the expected compression ratio.
C7_ReadyOnlyIfHardConditions ==
    (PrepareDone /\ retval = 0)
    => /\ amount_needed(CountsNow, FALSE) <= 0
       /\ header_space_allocated >= header_storage_needed
       /\ main_storage_allocated >= main_storage_needed(CountsNow, TRUE, TRUE)

\* 0 is returned after both iterations while the image exceeds the limit
C7_Witness ==
    /\ PrepareDone /\ Ready /\ Iterations = MAX_TRIES
    /\ image_size_limit > 0
    /\ amount_needed(CountsNow, TRUE) > 0
    /\ header_space_allocated > 0

\* C8: once a freeze_processes call inside suspend_prepare_image has failed
\* (in attempt_to_freeze, in eat_memory or in update_image), FREEZING_FAILED
\* and ABORTED are recorded and neither eat_memory nor update_image is
\* called again.
C8_FreezeFailureNotRetried ==
    [][/\ freeze_failed' => {"FREEZING_FAILED", "ABORTED"} \subseteq toi_result'
       /\ freeze_failed => calls' = calls /\ tries' = tries]_vars

\* The freeze in update_image failed in the first iteration with the image
\* not ready yet, and suspend_prepare_image has returned
C8_Witness ==
    /\ PrepareDone /\ freeze_failed
    /\ Iterations = 1 /\ calls = 2
    /\ image_not_ready(CountsNow, TRUE)
    /\ retval = 1

(***************************************************************************)
(* Properties of going atomic.                                             *)
(***************************************************************************)
\* What undoes each call of suspend2_go_atomic that can be undone
UndoneBy == [pm_prepare_console |-> "pm_restore_console",
             suspend_console |-> "resume_console",
             device_suspend |-> "device_resume",
             disable_nonboot_cpus |-> "enable_nonboot_cpus",
             local_irq_disable |-> "local_irq_enable",
             device_power_down |-> "device_power_up"]

UndoCalls == {UndoneBy[k] : k \in DOMAIN UndoneBy}

\* The reason suspend2_go_atomic records for each call that can refuse
ReasonOf == [device_suspend |-> "DEVICE_REFUSED",
             disable_nonboot_cpus |-> "CPU_HOTPLUG_FAILED",
             arch_prepare_suspend |-> "ARCH_PREPARE_FAILED",
             device_power_down |-> "DEVICE_REFUSED"]

Reverse(q) == [i \in 1..Len(q) |-> q[Len(q) + 1 - i]]

IsCompleted(e) == e.ok /\ e.call \in DOMAIN UndoneBy
IsUndo(e) == e.call \in UndoCalls
IsRefusal(e) == ~e.ok

\* The undoing calls that a sequence of completed calls asks for
UndoOf(completed) ==
    Reverse([i \in 1..Len(completed) |-> UndoneBy[completed[i].call]])

CallsOf(q) == [i \in 1..Len(q) |-> q[i].call]

\* C9: when a call of suspend2_go_atomic refuses, the calls made afterwards
\* are those of suspend2_end_atomic, and they undo exactly the calls that
\* had completed, in reverse order; the reason that matches the refusing
\* call is recorded with ABORTED, and 1 is returned.
C9_UnwindUndoesCompletedSteps ==
    pc = "at_failed"
    => LET refusals == SelectSeq(atomic_log, IsRefusal)
           at == CHOOSE i \in 1..Len(atomic_log) : ~atomic_log[i].ok
           before == SubSeq(atomic_log, 1, at - 1)
           after == SubSeq(atomic_log, at + 1, Len(atomic_log))
       IN /\ Len(refusals) = 1
          /\ refusals[1].call \in AtomicRefusals
          /\ \A i \in 1..Len(before) : ~IsUndo(before[i])
          /\ CallsOf(after) = UndoOf(SelectSeq(before, IsCompleted))
          /\ {ReasonOf[refusals[1].call], "ABORTED"} \subseteq toi_result
          /\ retval = 1

\* Power-down refused with the nonboot cpus disabled: four calls are undone
C9_Witness ==
    /\ pc = "at_failed"
    /\ \E i \in 1..Len(atomic_log) :
          atomic_log[i] = [call |-> "device_power_down", ok |-> FALSE]
    /\ \E i \in 1..Len(atomic_log) :
          atomic_log[i] = [call |-> "disable_nonboot_cpus", ok |-> TRUE]
    /\ ~test_action_state(toi_action, "PM_PREPARE_CONSOLE")

\* C10: in every state, if one of the abort reasons FREEZING_FAILED,
\* NOSTORAGE_AVAILABLE, WOULD_EAT_MEMORY, EXTRA_PAGES_ALLOW_TOO_SMALL,
\* DEVICE_REFUSED, CPU_HOTPLUG_FAILED, ARCH_PREPARE_FAILED or
\* UNABLE_TO_PREPARE_IMAGE is set in the result word, ABORTED is set too.
C10_ReasonImpliesAborted ==
    toi_result \cap AbortReasons # {} => test_result_state(toi_result, "ABORTED")

\* A reason is recorded
C10_Witness ==
    /\ toi_result \cap AbortReasons # {}
    /\ pc \in {"prep_done", "pg_done", "pg_aborted", "at_failed"}

(***************************************************************************)
(* Properties of eat_memory.                                               *)
(***************************************************************************)
\* The entries of call_log that are calls of the named function
CallsTo(q, call) == SelectSeq(q, LAMBDA e : e.call = call)

\* What a step has appended to call_log
Appended == SubSeq(call_log', Len(call_log) + 1, Len(call_log'))

\* C11: under image_size_limit = -1, when the amount needed at the start of
\* eat_memory is positive, eat_memory records WOULD_EAT_MEMORY with ABORTED
\* and returns without thawing, dropping the page cache or shrinking a zone,
\* and no eat_memory or update_image call follows.
C11_DontEatAbortsAtOnce ==
    [][/\ (pc = "prep_eat" /\ image_size_limit = 0 - 1
              /\ amount_needed(CountsNow, TRUE) > 0)
          => /\ {"WOULD_EAT_MEMORY", "ABORTED"} \subseteq toi_result'
             /\ Appended = Call("eat_memory", FALSE, 0,
                                amount_needed(CountsNow, TRUE))
             /\ reclaimed' = reclaimed
             /\ CountsNow' = CountsNow
       /\ test_result_state(toi_result, "WOULD_EAT_MEMORY")
          => calls' = calls /\ tries' = tries]_vars

\* The policy refused, and suspend_prepare_image has returned
C11_Witness ==
    /\ PrepareDone
    /\ image_size_limit = 0 - 1
    /\ test_result_state(toi_result, "WOULD_EAT_MEMORY")
    /\ calls = 1 /\ Len(call_log) = 1 /\ call_log[1].nr_pages > 0
    /\ retval = 1

\* C12: under image_size_limit = -2, a call of eat_memory makes exactly one
\* drop_pagecache pass and never calls shrink_one_zone, whatever is still
\* needed after the cache drop.
C12_FreeCachesOnlyNeverShrinks ==
    [][(pc = "prep_eat" /\ image_size_limit = 0 - 2)
       => /\ Len(CallsTo(Appended, "drop_pagecache")) = 1
          /\ Len(CallsTo(Appended, "shrink_one_zone")) = 0]_vars

IsShrink(e) == e.call = "shrink_one_zone"

\* C13, as stated: eat_memory makes no shrink_one_zone call for a zone of a
\* class (highmem, lowmem) whose own deficit, highpages_ps1_to_free resp.
\* lowpages_ps1_to_free, is not positive.
C13_NoShrinkWithoutClassDeficit ==
    \A i \in 1..Len(call_log) : IsShrink(call_log[i]) => call_log[i].deficit > 0

\* C13, amended: once eat_memory enters its reclamation loop it calls
\* shrink_one_zone for every zone, in zone_idx order, asking each time for
\* at least the deficit of the zone's class and never for a negative
\* number; the loop is not left early.
C13_EveryZoneIsShrunk ==
    [][pc = "prep_eat"
       => LET shrinks == SelectSeq(Appended, IsShrink)
          IN /\ Len(shrinks) \in {0, MAX_NR_ZONES}
             /\ Len(shrinks) = 0 <=> CallsTo(Appended, "thaw_kernel_threads") = <<>>
             /\ \A z \in 1..Len(shrinks) :
                   /\ shrinks[z].high = ZoneTypes[z]
                   /\ shrinks[z].nr_pages >= shrinks[z].deficit
                   /\ shrinks[z].nr_pages >= 0]_vars

\* A zone was shrunk for a class without a deficit of its own, and another
\* was asked for no pages at all
C13_Witness ==
    /\ \E i \in 1..Len(call_log) :
          /\ IsShrink(call_log[i])
          /\ call_log[i].deficit = 0 /\ call_log[i].nr_pages > 0
    /\ \E i \in 1..Len(call_log) :
          IsShrink(call_log[i]) /\ call_log[i].nr_pages = 0

(***************************************************************************)
(* Properties of the end of suspend_prepare_image.                         *)
(***************************************************************************)
UnlinkCalls == Len(CallsTo(call_log, "unlink_lru_lists"))

\* C14: suspend_prepare_image calls unlink_lru_lists only when it completes
\* with no abort flag set and every readiness condition met, returning 0,
\* and then exactly once; when it fails or is aborted it never calls it.
C14_UnlinkOnlyOnSuccess ==
    /\ UnlinkCalls <= 1
    /\ UnlinkCalls = 1 <=> lru_unlinked
    /\ UnlinkCalls = 1
       => /\ PrepareDone /\ Ready
          /\ ~image_not_ready(CountsNow, FALSE)
    /\ PrepareDone
       => (UnlinkCalls = 1 <=> Ready)

\* The lists were unlinked after reclaim had made the image ready
C14_Witness ==
    /\ PrepareDone /\ UnlinkCalls = 1
    /\ reclaimed.ps1 + reclaimed.ps2 > 0
    /\ call_log[Len(call_log)].call = "unlink_lru_lists"

(***************************************************************************)
(* Properties of the counts of flag_image_pages                            *)
(***************************************************************************)
\* The frames a pass counts in one of the two pagedirs: valid, not free,
\* and neither unsaveable nor marked Nosave
SaveableNonFree == Scanned \ (ClassFree \cup ClassNosave)
MarkedPs2 == SaveableNonFree \cap pageset2_map
NotMarkedPs2 == SaveableNonFree \ pageset2_map
HighOf(S) == {p \in S : PageHighMem(p)}

\* C15: after a classification pass pagedir2.size is the number of saveable
\* non-free frames marked pageset 2 (Resave ones included), pagedir1.size is
\* the number of saveable non-free frames not marked pageset 2 plus the
\* number of pageset-2 frames flagged Resave (so N frames with n nosave and
\* p pageset-2 frames of which r are Resave give N - n - p + r and p), and
\* the highmem sub-counts follow the same rule over the highmem frames.
C15_SizesFollowTheRule ==
    AfterPass =>
        /\ pagedir2.size = Cardinality(MarkedPs2)
        /\ pagedir1.size = Cardinality(NotMarkedPs2)
                            + Cardinality(MarkedPs2 \cap page_resave)
        /\ pagedir1.size = Cardinality(Scanned) - Cardinality(ClassFree)
                            - num_nosave - pagedir2.size
                            + Cardinality(MarkedPs2 \cap page_resave)
        /\ pagedir2.highmem = Cardinality(HighOf(MarkedPs2))
        /\ pagedir1.highmem = Cardinality(HighOf(NotMarkedPs2))
                               + Cardinality(HighOf(MarkedPs2 \cap page_resave))

\* A pass over memory that holds a Nosave frame, a pageset-2 frame that is
\* not Resave, and a highmem pageset-2 frame that is
C15_Witness ==
    /\ pc = "pg_eaten"
    /\ ClassNosave # {}
    /\ MarkedPs2 \ page_resave # {}
    /\ HighOf(MarkedPs2 \cap page_resave) # {}
    /\ pagedir1.highmem > 0

(***************************************************************************)
(* Properties of the extra pagedir memory                                  *)
(***************************************************************************)
RECURSIVE ListPagesTotal(_)
ListPagesTotal(list) ==
    IF list = <<>> THEN 0
    ELSE Pow2(Head(list).order) + ListPagesTotal(Tail(list))

\* The memory a call of the allocator or of the free function works on
ExtraMemoryNow ==
    [free |-> page_free, nosave |-> page_nosave, copy |-> pageset1_copy_map,
     list |-> extras_list, allocated |-> extra_pages_allocated]

\* The blocks a call has put in front of the list it found, newest first
NewBlocks(before, after) == SubSeq(after, 1, Len(after) - Len(before))

\* Requests large enough to reach the cap on the order, and small ones
OrderProbes == {1, 2, 3, 5, 1023, 1024, 2047, 2048, 5000}

\* What one call suspend_allocate_extra_pagedir_memory(n) that ends in e has
\* done to the memory m
GoodAllocation(m, n, budget, e) ==
    LET new == NewBlocks(m.list, e.list)
    IN /\ e.list = new \o m.list
       /\ e.allocated = m.allocated + ListPagesTotal(new)
       /\ e.allocated <= Max(n, m.allocated)
       /\ \A i \in 1..Len(new) :
             /\ new[i].order >= 0 /\ new[i].order < MAX_ORDER
             \* no larger than what was still needed when it was obtained
             /\ Pow2(new[i].order)
                   <= n - m.allocated - ListPagesTotal(SubSeq(new, i + 1, Len(new)))
             \* the order only ever drops
             /\ i < Len(new) => new[i].order <= new[i + 1].order
             /\ BlockPages(new[i].page, new[i].order) \subseteq m.free
       \* it stops short only when not even a single page is to be had
       /\ (e.allocated < n /\ budget > Len(new)) => FreeBlocks(e.free, 0) = {}

\* C16: on memory as it is before the first call, and as a later call finds
\* it with blocks already obtained,
\* suspend_allocate_extra_pagedir_memory(n) obtains memory in
\* power-of-two blocks, each no larger than the remaining need and of order
\* below MAX_ORDER, dropping to smaller orders down to single pages when an
\* allocation fails, and never brings extra_pages_allocated above n; after
\* any sequence of allocate and free calls extra_pages_allocated is the
\* total of the pages of the blocks in extras_list, which is 0 after
\* suspend_free_extra_pagedir_memory.
C16_ExtraPagesAccounting ==
    /\ extra_pages_allocated = ListPagesTotal(extras_list)
    /\ pc = "pg_freed" => extra_pages_allocated = 0 /\ extras_list = <<>>
    /\ (pc = "pg_start" \/ (pc = "pg_eaten" /\ extras_list # <<>>)) =>
          \A m \in {ExtraMemoryNow} : \A n \in 0..(MaxPfn + 2) : \A budget \in 0..n :
          \A g \in suspend_allocate_extra_pagedir_memory(m, n, budget) :
             GoodAllocation(m, n, budget, g.st)
    /\ pc = "pg_start" => \A n \in OrderProbes :
          /\ FirstOrder(n) < MAX_ORDER
          /\ Pow2(FitOrder(FirstOrder(n), n)) <= n
          /\ FitOrder(FirstOrder(n), n) = Min(fls(n), MAX_ORDER) - 1

\* update_image has obtained two extra pages as one block of two frames
C16_Witness ==
    /\ pc = "pg_updated"
    /\ extra_pages_allocated = 2
    /\ Len(extras_list) = 1
    /\ extras_list[1].order = 1
    /\ BlockPages(extras_list[1].page, 1) \subseteq page_nosave

\* The extra pages have been given back after some had been obtained
C16_FreedWitness ==
    /\ pc = "pg_freed"
    /\ extra_pages_allocated = 0
    /\ pageset1_copy_map \cap page_free # {}

(***************************************************************************)
(* Properties of update_image                                              *)
(***************************************************************************)
\* The requests for extra pages, among the calls q, that were not met in full
Shortfalls(q) ==
    SelectSeq(q, LAMBDA e : e.call = "suspend_allocate_extra_pagedir_memory"
                            /\ e.deficit > 0)

\* C17: when update_image cannot obtain all the extra pages it wants, the
\* shortfall is reported (the "Want %d extra pages" message is issued and
\* update_image returns) and no abort flag is set by that call.
C17_ShortfallReported ==
    [][(pc = "prep_update" /\ Shortfalls(Appended) # <<>>) =>
          /\ CallsTo(Appended, "suspend_message") # <<>>
          /\ toi_result' = toi_result]_vars

\* The part of C17 that lines 548-559 do provide: a request that was not
\* met in full is made again by the next update_image
C17_ShortfallAskedAgain ==
    [][(pc = "prep_update" /\ Shortfalls(call_log) # <<>>
        /\ CountsNow.pd1.size + extra_pd1_pages_allowance
              - get_lowmem_size(CountsNow.pd2) > extra_pages_allocated) =>
          CallsTo(Appended, "suspend_allocate_extra_pagedir_memory") # <<>>]_vars

(***************************************************************************)
(* Properties of ___suspend_get_nonconflicting_page                        *)
(***************************************************************************)
\* C18: ___suspend_get_nonconflicting_page never returns a page marked
\* Pageset1, neither from the recycling path nor from the fresh-allocation
\* path; called with can_be_highmem == 0 it never returns a highmem page;
\* and it returns NULL only when a fresh allocation has failed.
C18_NonconflictingPage ==
    \A i \in 1..Len(handed) :
       LET h == handed[i]
       IN /\ h.page # NoPage =>
               /\ h.page \in Pfns
               /\ h.page \notin pageset1_map
               /\ ~h.can_be_highmem => ~PageHighMem(h.page)
               /\ h.recycled => h.page \in pageset2_map
          /\ h.page = NoPage => ~h.recycled /\ h.alloc_failed

\* One call has recycled a frame of pageset 2 after passing over one that is
\* marked Pageset1, and another, which may not return highmem, has allocated
\* a fresh frame
C18_Witness ==
    /\ \E i \in 1..Len(handed) :
          /\ handed[i].recycled /\ handed[i].page # NoPage
          /\ \E p \in pageset2_map \cap pageset1_map : p < handed[i].page
    /\ \E i \in 1..Len(handed) :
          /\ ~handed[i].recycled /\ handed[i].page # NoPage
          /\ ~handed[i].can_be_highmem

(***************************************************************************)
(* Properties of suspend_get_pageset1_load_addresses                       *)
(***************************************************************************)
\* The frames of pageset 1 a pbe of either list names as its original
StagedOriginals ==
    {restore_pblist[i].orig_address : i \in 1..Len(restore_pblist)}
    \cup {restore_highmem_pblist[i].orig_address
          : i \in 1..Len(restore_highmem_pblist)}

\* The frames of pageset 1 that are neither loaded directly nor staged
Unstaged ==
    {p \in pageset1_map : /\ ~load_direct(p, toi_action, pageset1_copy_map)
                          /\ p \notin StagedOriginals}

\* C19: suspend_get_pageset1_load_addresses returns 0 only if every
\* pageset1 page that cannot be loaded directly has received a staging page,
\* and returns 1 whenever fewer suitable pages were found than are needed.
C19_FailureIsReported ==
    pc = "ld_done" =>
        /\ retval = 0 => Unstaged = {}
        /\ Unstaged # {} => retval = 1


(***************************************************************************)
(* Properties of the pbe lists                                             *)
(***************************************************************************)
\* What the claim asks of the lists an end e of
\* suspend_get_pageset1_load_addresses leaves, for the pageset1_map ps1.
GoodPbeLists(e, ps1, action) ==
    \E all \in {e.low_pbes \o e.high_pbes} :
       /\ \A i, j \in 1..Len(all) :
             i # j => /\ all[i].orig_address # all[j].orig_address
                      /\ all[i].address # all[j].address
       /\ {all[i].orig_address : i \in 1..Len(all)}
             = {p \in ps1 : ~load_direct(p, action, e.copy)}
       /\ \A i \in 1..Len(e.low_pbes) : ~PageHighMem(e.low_pbes[i].orig_address)
       /\ \A i \in 1..Len(e.high_pbes) : PageHighMem(e.high_pbes[i].orig_address)
       /\ \A i \in 1..Len(all) : /\ all[i].address \notin ps1
                                 /\ all[i].address \in e.copy
                                 /\ all[i].address \notin e.m.free
       /\ (\E i \in 1..Len(e.high_pbes) : ~PageHighMem(e.high_pbes[i].address))
             => e.highallocd < e.high_wanted

\* The call found the staging pages it needs: low_to_free is not negative.
EnoughAllocated(e) == e.ret = 0 /\ ~e.bug /\ e.lowallocd >= e.low_needed

C21_HighForHighWitness ==
    /\ pc = "ld_done"
    /\ retval = 0
    /\ Unstaged = {}
    /\ \E i \in 1..Len(restore_highmem_pblist) :
          PageHighMem(restore_highmem_pblist[i].address)

\* A successful call staged a highmem original in a lowmem page.
C21_LowForHighWitness ==
    /\ pc = "ld_done"
    /\ retval = 0
    /\ Unstaged = {}
    /\ \E i \in 1..Len(restore_highmem_pblist) :
          ~PageHighMem(restore_highmem_pblist[i].address)

(***************************************************************************)
(* Properties of the swap signature                                        *)
(***************************************************************************)
\* the block number needs no more than 32 bits
FitsIn32Bits(block) == SubSeq(block, 5, 8) = <<0, 0, 0, 0>>

\* C27: prepare_signature refuses every header block number that needs more
\* than 32 bits, so that for every signature it does write, parse_signature
\* recovers the same device number and the same header block.
C27_SignatureRoundTrip ==
    /\ pc \in {"sg_written", "sg_parsed"} => FitsIn32Bits(sig_args.block)
    /\ pc = "sg_parsed" =>
          /\ header_dev_t = sig_args.bdev
          /\ headerblock = sig_args.block

\* A block number of 32 bits or fewer was written and read back
C27_FitsWitness ==
    /\ pc = "sg_parsed"
    /\ FitsIn32Bits(sig_args.block)
    /\ sig_args.block # <<0, 0, 0, 0, 0, 0, 0, 0>>
    /\ header_dev_t = sig_args.bdev
    /\ headerblock = sig_args.block

\* A block number was refused
C27_RefusedWitness ==
    /\ pc = "sg_refused"
    /\ signature_type(sig_header) \in {0, 1}

(***************************************************************************)
(* Properties of suspend_mark_pages_for_pageset2                           *)
(***************************************************************************)
\* the tasks the claim is about
AttentionTasks == {t \in Tasks : PF_NOFREEZE(t) \/ IsCurrent(t)}

\* C26 as stated: after suspend_mark_pages_for_pageset2 completes without an
\* abort, no page mapped by a task with PF_NOFREEZE or by the invoking task
\* is in pageset2_map.
C26_AsStated ==
    pc = "mk_done" =>
       pageset2_map \cap UNION {MappedPages(t) : t \in AttentionTasks} = {}

\* C26: after suspend_mark_pages_for_pageset2 completes without an abort, no
\* page that a task with PF_NOFREEZE or the invoking task maps in a vma the
\* walk does not skip is in pageset2_map, in the per-process mode and in the
\* PAGESET2_FULL mode, also when an ordinary process marked earlier in the
\* pass maps the page too; unless SUSPEND_NO_PAGESET2 is set these pages are
\* marked Pageset1.
C26_AttentionPagesLeavePageset2 ==
    pc = "mk_done" =>
       \A t \in AttentionTasks :
          /\ pageset2_map \cap WalkedPages(t) = {}
          /\ ~test_action_state(toi_action, "NO_PAGESET2")
                => WalkedPages(t) \subseteq pageset1_map

\* A pass in the per-process mode has ended with frames in pageset 2, while
\* the helper maps a frame the ordinary process maps too and the invoking
\* task has a frame of its own
C26_Witness ==
    /\ pc = "mk_done"
    /\ toi_action = {}
    /\ pageset2_map # {}
    /\ mmap["proc"] \cap mmap["helper"] # {}
    /\ mmap["current"] # {}

\* The same in the PAGESET2_FULL mode
C26_FullWitness ==
    /\ pc = "mk_done"
    /\ test_action_state(toi_action, "PAGESET2_FULL")
    /\ pageset2_map # {}
    /\ mmap["proc"] \cap mmap["helper"] # {}
    /\ mmap["current"] # {}

\* A second pass has taken out of pageset 2 a frame the helper mapped after
\* the first
C26_RemappedWitness ==
    /\ pc = "mk_done"
    /\ env_steps = 1
    /\ pageset2_map # {}
    /\ toi_action = {}

(***************************************************************************)
(* Properties of the order of freezing, reclaim and counting               *)
(***************************************************************************)
Thaws == {"thaw_processes", "thaw_kernel_threads"}
Reclaims == {"shrink_one_zone", "drop_pagecache"}

\* nothing from `names` is logged strictly between positions a and b
NoneBetween(log, a, b, names) ==
    \A k \in (a + 1)..(b - 1) : log[k] \notin names

\* the verdict at position d rests on a count taken after the last
\* freeze_processes, with no thaw and no reclaim since
CountedWhileFrozen(log, d) ==
    \E c \in 1..(d - 1) :
       /\ log[c] = "suspend_recalculate_image_contents"
       /\ NoneBetween(log, c, d, {"freeze_processes"} \cup Thaws \cup Reclaims)
       /\ \E f \in 1..(c - 1) : log[f] = "freeze_processes"

\* the shrink_one_zone call at position i lies between a thaw_kernel_threads
\* and the freeze_processes that follows it
ShrunkWhileThawed(log, i) ==
    /\ \E t \in 1..(i - 1) :
          /\ log[t] = "thaw_kernel_threads"
          /\ NoneBetween(log, t, i, {"freeze_processes"} \cup Thaws)
    /\ \E f \in (i + 1)..Len(log) :
          /\ log[f] = "freeze_processes"
          /\ NoneBetween(log, i, f, {"freeze_processes"} \cup Thaws)

\* C25: within suspend_prepare_image the pageset sizes the final readiness
\* decision uses come from a classification pass that ran after the last
\* freeze_processes call, with no thaw and no reclamation between that pass
\* and the decision; and every shrink_one_zone call lies between a
\* thaw_kernel_threads and the following freeze_processes.
C25_CountedAfterLastFreeze ==
    \A i \in 1..Len(order_log) :
       /\ order_log[i] = "image_not_ready" => CountedWhileFrozen(order_log, i)
       /\ order_log[i] = "shrink_one_zone" => ShrunkWhileThawed(order_log, i)

\* The zones were shrunk, the freeze after it failed, and the verdict was
\* given on the counts taken after that freeze
C25_Witness ==
    /\ pc = "prep_done"
    /\ tries = 1
    /\ test_result_state(toi_result, "FREEZING_FAILED")
    /\ \E i \in 1..Len(order_log) : order_log[i] = "shrink_one_zone"
    /\ order_log[Len(order_log)] = "image_not_ready"

\* Both tries were made, each with zones shrunk, before the verdict
C25_TwoTriesWitness ==
    /\ pc = "prep_done"
    /\ tries = 3
    /\ order_log[Len(order_log)] = "image_not_ready"
    /\ Cardinality({i \in 1..Len(order_log) :
                       order_log[i] = "thaw_kernel_threads"}) = 4

(***************************************************************************)
(* Properties of the cursor into pageset2_map                              *)
(***************************************************************************)
\* where the scan of pageset2_map stands: before the first frame at the
\* reset value, at a frame, or past the last one
ScanPosition(cursor) == IF cursor = max_pfn + 1 THEN 0 - 1 ELSE cursor

\* a step that is one call of ___suspend_get_nonconflicting_page
GetStep == pc \in {"gt_run", "gt_freed"} /\ Len(handed') = Len(handed) + 1

CursorStep(before, after, call) ==
    /\ after >= before
    /\ call.recycled =>
          /\ call.page = ps2_pfn'
          /\ call.page \in pageset2_map
          /\ call.page > ScanPosition(ps2_pfn)
    /\ ps2_pfn = max_pfn + 2 => ~call.recycled /\ ps2_pfn' = ps2_pfn

\* the frames of pageset 2 handed out since the cursor was reset differ
RecycledOnce ==
    \A i, j \in 1..Len(handed) :
       (i < j /\ handed[i].recycled /\ handed[j].recycled)
          => handed[i].page < handed[j].page

\* C23 as stated: while an alternate image is being loaded, successive calls
\* of ___suspend_get_nonconflicting_page between two cursor resets never
\* lower ps2_pfn and never hand out the same pageset2 page twice, and once
\* ps2_pfn == max_pfn + 2 every later call skips the recycling path.
C23_AsStated ==
    /\ []RecycledOnce
    /\ [][GetStep => CursorStep(ps2_pfn, ps2_pfn', handed'[Len(handed')])]_vars

\* C23: between two cursor resets the scan of pageset2_map only moves
\* forward: the first call after a reset takes ps2_pfn from max_pfn + 1 down
\* to the first frame of the map it looks at, and from then on no call
\* lowers ps2_pfn; a recycled frame lies after the place the scan had
\* reached, so the same pageset2 page is never handed out twice; and once
\* ps2_pfn == max_pfn + 2 every later call skips the recycling path and
\* leaves ps2_pfn alone.
C23_CursorAdvances ==
    /\ []RecycledOnce
    /\ [][GetStep => CursorStep(ScanPosition(ps2_pfn), ScanPosition(ps2_pfn'),
                                handed'[Len(handed')])]_vars

\* A frame of pageset 2 was recycled, the next call passed over the rest of
\* the map and allocated, and a third call allocated with the map exhausted
C23_Witness ==
    /\ Len(handed) = 3
    /\ handed[1].recycled
    /\ ~handed[2].recycled /\ handed[2].page # NoPage
    /\ ~handed[3].recycled /\ handed[3].page # NoPage
    /\ ps2_pfn = max_pfn + 2
    /\ Cardinality(pageset2_map) >= 2

\* Two calls in a row have recycled a frame of pageset 2
C23_TwoRecycledWitness ==
    /\ Len(handed) >= 2
    /\ handed[1].recycled /\ handed[2].recycled

(***************************************************************************)
(* Properties of the conflicting pages                                     *)
(***************************************************************************)
ChainPages(chain) == {chain[i] : i \in 1..Len(chain)}

\* a step that is one call of free_conflicting_pages
FreeStep == pc = "gt_run" /\ pc' = "gt_freed"

\* the chain holds frames marked Pageset1, each once, that are neither free
\* nor in a caller's hands
ConflictingKept ==
    /\ \A i, j \in 1..Len(first_conflicting_page) :
          i # j => first_conflicting_page[i] # first_conflicting_page[j]
    /\ ChainPages(first_conflicting_page) \subseteq pageset1_map
    /\ ChainPages(first_conflicting_page) \cap page_free = {}
    /\ \A i \in 1..Len(handed) :
          handed[i].page \notin ChainPages(first_conflicting_page)

\* a call adds to the front of the chain every frame of pageset 1 the
\* allocator gave it, and takes nothing from the chain
ConflictingAdded ==
    \E added \in {Len(first_conflicting_page') - Len(first_conflicting_page)} :
       /\ added >= 0
       /\ SubSeq(first_conflicting_page', added + 1, Len(first_conflicting_page'))
             = first_conflicting_page
       /\ \A i \in 1..added :
             /\ first_conflicting_page'[i] \in page_free \cap pageset1_map
             /\ first_conflicting_page'[i] \notin page_free'
       /\ (page_free \ page_free') \cap pageset1_map
             \subseteq ChainPages(first_conflicting_page')

\* free_conflicting_pages has called __free_page once for each frame of the
\* chain, none of which was free, and the chain is empty
ConflictingFreed ==
    \E r \in {free_conflicting_pages(page_free, first_conflicting_page, <<>>)} :
       /\ Len(r.freed) = Len(first_conflicting_page)
       /\ ChainPages(r.freed) = ChainPages(first_conflicting_page)
       /\ \A i, j \in 1..Len(r.freed) : i # j => r.freed[i] # r.freed[j]
       /\ ChainPages(r.freed) \cap page_free = {}
       /\ first_conflicting_page' = <<>>
       /\ page_free' = page_free \cup ChainPages(first_conflicting_page)

\* C24: a freshly allocated page that is marked Pageset1 is kept on the
\* chain of conflicting pages, neither freed nor returned to a caller, until
\* free_conflicting_pages is called; free_conflicting_pages frees every page
\* of the chain exactly once and leaves the chain empty.
C24_ConflictingPagesKept ==
    /\ []ConflictingKept
    /\ [][/\ GetStep => ConflictingAdded
          /\ FreeStep => ConflictingFreed
          /\ ~FreeStep => ChainPages(first_conflicting_page)
                             \subseteq ChainPages(first_conflicting_page')]_vars

\* free_conflicting_pages has just freed the chain, on which two frames of
\* pageset 1 were kept while a call went on to return a third frame
C24_Witness ==
    /\ pc = "gt_freed"
    /\ first_conflicting_page = <<>>
    /\ Cardinality(pageset1_map \cap page_free) >= 2
    /\ handed # <<>>
    /\ ~handed[Len(handed)].recycled
    /\ handed[Len(handed)].page # NoPage

\* Two conflicting frames are on the chain
C24_ChainWitness == Len(first_conflicting_page) = 2

(***************************************************************************)
(* Properties of copyback_high                                             *)
(***************************************************************************)
ExpectedCopies(n) ==
    [k \in 1..n |-> [orig_address |-> HighOrig(k), address |-> HighCopy(k)]]

\* Within a pbe page next is the address of the following pbe; the next of
\* the last pbe of a page is null or a struct page *.
PbePagesLinked ==
    \A slot \in DOMAIN pbe_mem :
       \E next \in {pbe_mem[slot].next} :
          \/ next = NullPtr
          \/ /\ next.kind = "pbe"
             /\ slot[2] < PBES_PER_PAGE - 1
             /\ next = PbePtr(slot[1], slot[2] + 1)
          \/ /\ next.kind = "page"
             /\ slot[2] = PBES_PER_PAGE - 1
             /\ next.page # slot[1]

\* C22: for a highmem pbe list of any length n built by
\* suspend_get_pageset1_load_addresses with get_next_pbe, copyback_high
\* copies exactly n pages, each staged copy to its own original once and in
\* the order of the list, following the page pointer in the last pbe of each
\* full pbe page, and then terminates.
C22_CopybackWalksTheList ==
    /\ pc \in {"pb_build", "pb_built", "pb_copied"} => PbePagesLinked
    /\ pc = "pb_copied" =>
          /\ copied_back.ended
          /\ ~copied_back.wild
          /\ copied_back.copies = ExpectedCopies(pbe_locals.high_pbes_done)

\* copyback_high has walked a list that fills two pbe pages and has one pbe
\* on a third.
C22_Witness ==
    /\ pc = "pb_copied"
    /\ pbe_locals.high_pbes_done = 2 * PBES_PER_PAGE + 1
    /\ Len(copied_back.copies) = 2 * PBES_PER_PAGE + 1
    /\ Cardinality({slot[1] : slot \in DOMAIN pbe_mem}) = 3

\* The lengths the claim names: none, less than a page, exactly one page.
C22_EmptyWitness ==
    pc = "pb_copied" /\ pbe_locals.high_pbes_done = 0 /\ copied_back.copies = <<>>
C22_ShortWitness ==
    pc = "pb_copied" /\ Len(copied_back.copies) = PBES_PER_PAGE - 1
C22_FullPageWitness ==
    /\ pc = "pb_copied"
    /\ Len(copied_back.copies) = PBES_PER_PAGE
    /\ pbe_locals.high_pbe_page \in page_free

(***************************************************************************)
(* Properties of the extent chains.                                        *)
(***************************************************************************)
\* The ranges of a log come in non-decreasing order and do not overlap.
LogMonotone(L) ==
    /\ \A k \in 1..Len(L) : L[k].min <= L[k].max
    /\ \A k \in 1..(Len(L) - 1) : L[k].max < L[k + 1].min

LogUnion(L) == UNION {L[k].min..L[k].max : k \in 1..Len(L)}

\* Iterating the chain gives the union of the logged ranges, no value twice,
\* and as many values as the chain's size says.
RoundTrip(chain, L) ==
    \E values \in {toi_extent_for_each(chain)} :
       /\ {values[k] : k \in 1..Len(values)} = LogUnion(L)
       /\ \A j, k \in 1..Len(values) : j # k => values[j] # values[k]
       /\ chain.size = Len(values)

\* A chain built from nothing by the adds of a log, every node granted.
RECURSIVE BuildChain(_)
BuildChain(L) ==
    IF L = <<>> THEN EmptyChain
    ELSE toi_add_to_extent_chain(BuildChain(SubSeq(L, 1, Len(L) - 1)),
                                 L[Len(L)].min, L[Len(L)].max, TRUE).chain

ProbeRanges ==
    {r \in [min : 0..(MaxSlots + 2), max : 0..(MaxSlots + 2)] : r.min <= r.max}
ProbeLogs == UNION {[1..n -> ProbeRanges] : n \in 0..3}

\* C20: a chain built by adds of non-decreasing, non-overlapping ranges, as
\* swapextents and the block chains are, yields on iteration exactly the
\* union of the added ranges, each value once, and its size is the number of
\* values yielded.
C20_ExtentRoundTrip ==
    /\ pc = "sw_idle" =>
          /\ LogMonotone(chain_log.swap) => RoundTrip(swapextents, chain_log.swap)
          /\ \A f \in SwapFiles :
                LogMonotone(chain_log.block[f])
                    => RoundTrip(block_chain[f], chain_log.block[f])
    /\ (pc = "sw_idle" /\ swap_slots_free = SwapEntries /\ main_pages_requested = 0) =>
          \A L \in ProbeLogs : LogMonotone(L) => RoundTrip(BuildChain(L), L)

\* swapextents was built by three adds in ascending order, one of which
\* extended the tail and one of which left a gap, and a block chain holds a
\* run of two sectors.
C20_Witness ==
    /\ pc = "sw_idle"
    /\ Len(chain_log.swap) = 3
    /\ LogMonotone(chain_log.swap)
    /\ Len(swapextents.extents) = 2
    /\ swapextents.size = 3
    /\ \E f \in SwapFiles : /\ block_chain[f].size = 2
                            /\ LogMonotone(chain_log.block[f])

(***************************************************************************)
(* Properties of the image streams                                         *)
(***************************************************************************)
RECURSIVE PagesFrom(_, _)
PagesFrom(state, chains) ==
    LET n == go_next_page(state, chains) IN
    IF toi_extent_state_eof(n, chains) THEN <<>> ELSE <<n>> \o PagesFrom(n, chains)

StoragePages == PagesFrom(StartPosn, stream_chains)

\* Where in the walk of the storage a position is: 0 before the first
\* page, one more than the number of pages at the end.
PageIndex(chain, offset) ==
    IF chain = 0 - 1 THEN 0
    ELSE IF chain = Len(stream_chains) THEN Len(StoragePages) + 1
    ELSE CHOOSE i \in 1..Len(StoragePages) :
            /\ StoragePages[i].current_chain = chain
            /\ StoragePages[i].current_offset = offset

SavedIndex(s) == PageIndex(toi_writer_posn_save[s].chain_num, toi_writer_posn_save[s].offset)

WrittenBy(s) == SelectSeq(io_log, LAMBDA w : w.stream = s)

\* The pages a stream has written are the ones that follow a position, in
\* the order of the storage and with none left out.
FollowsOn(s, start) ==
    \A k \in 1..Len(WrittenBy(s)) :
       PageIndex(WrittenBy(s)[k].chain, WrittenBy(s)[k].offset) = start + k

HeaderSpaceAllocated == pc \notin {"st_start", "st_alloc_failed"}

Pageset2Written == pc \in {"st_ready1", "st_write1", "st_ready0", "st_core", "st_header",
                           "st_done", "st_bug"}

\* C28: the three streams of the image lie in the storage one after the
\* other and share no page.  The cursor of pageset 2 is saved on the page
\* that follows the header pages allocated, and the cursor of pageset 1 on
\* the page where the write of pageset 2 ended (the end of the storage when
\* the storage ran out); toi_rw_init puts the writer on the saved cursor of
\* its stream, and the pages a stream writes are the ones that follow its
\* cursor.  The header is written from the first page of the storage and
\* never reaches the cursor of pageset 2, so that toi_bio_rw_page never
\* comes to its BUG().
C28_StreamsDisjointConsecutive ==
    /\ ~bug_hit
    /\ HeaderSpaceAllocated =>
          /\ header_pages_allocated = HeaderPagesFor(HeaderUnitsAsked(owner_requested))
          /\ SavedIndex(2) = header_pages_allocated + 1
          /\ FollowsOn(2, SavedIndex(2))
          /\ FollowsOn(0, 0)
          /\ Len(WrittenBy(0)) <= header_pages_allocated
    /\ Pageset2Written =>
          /\ \/ SavedIndex(1) = SavedIndex(2) + Len(WrittenBy(2))
             \/ /\ SavedIndex(1) = Len(StoragePages) + 1
                /\ SavedIndex(2) + Len(WrittenBy(2)) = Len(StoragePages)
          /\ FollowsOn(1, SavedIndex(1))
    /\ (pc \in {"st_write2", "st_write1"}
        /\ ~toi_extent_state_eof(toi_writer_posn, stream_chains)) =>
          /\ current_stream = StreamOf(pc)
          /\ PageIndex(toi_writer_posn.current_chain, toi_writer_posn.current_offset)
                = SavedIndex(current_stream) + Len(WrittenBy(current_stream))
    /\ \A i, j \in 1..Len(io_log) :
          (i # j) => (io_log[i].chain # io_log[j].chain \/ io_log[i].offset # io_log[j].offset)

\* The image is written: each stream has written a page, and the header
\* has filled the two pages allocated to it, the last one next to the
\* cursor of pageset 2.
C28_Witness ==
    /\ pc = "st_done"
    /\ header_pages_allocated = 2
    /\ Len(WrittenBy(0)) = 2
    /\ Len(WrittenBy(2)) >= 1
    /\ Len(WrittenBy(1)) >= 1

\* The storage runs out while pageset 2 is written, over two chains that
\* have a block number in common.
C28_EndOfStorageWitness ==
    /\ pc = "st_ready1"
    /\ Len(stream_chains) = 3
    /\ SavedIndex(1) = Len(StoragePages) + 1
    /\ Len(WrittenBy(2)) >= 2

(***************************************************************************)
(* Properties of the netlink channel                                       *)
(***************************************************************************)
ExtraNofreezeMe ==
    /\ NlReceive
    /\ nl_last'.type = "NETLINK_MSG_NOFREEZE_ME"
    /\ user_helper_data.pid # 0 - 1

\* C29: at most one task holds the PF_NOFREEZE a channel has granted,
\* whatever messages and close calls come in; and a NETLINK_MSG_NOFREEZE_ME
\* that comes in while uhd->pid is set is answered with -EBUSY and changes
\* no task's flags.
C29_OneNofreezeTask ==
    /\ [](Cardinality(task_nofreeze) <= 1)
    /\ [][ExtraNofreezeMe => (nl_err' = 0 - EBUSY /\ UNCHANGED <<task_nofreeze, user_helper_data>>)]_vars

(***************************************************************************)
(* Properties of the swap entries taken for the image                      *)
(***************************************************************************)
SwapCovered ==
    {extent_val_to_swap_entry(toi_extent_for_each(swapextents)[k])
     : k \in 1..Len(toi_extent_for_each(swapextents))}

SwapTaken == SwapEntries \ swap_slots_free

\* C30: whenever __toi_swap_allocate_storage has returned, with success or
\* with -ENOSPC and whichever adds to the chain have failed, every swap
\* entry taken with get_swap_page and not given back with swap_free is one
\* that swapextents covers, and main_pages_allocated has grown by the number
\* of entries added to swapextents, so that it is the size of the chain.
C30_EntriesAccounted ==
    (pc = "sw_idle" /\ swap_info # <<>>) =>
       /\ SwapTaken = SwapCovered
       /\ main_pages_allocated = swapextents.size

(***************************************************************************)
(* Properties of what suspend_prepare_image returns                        *)
(***************************************************************************)
\* C31: suspend_prepare_image returns 0, an image prepared, only with the
\* ABORTED flag clear: an attempt on which an abort reason was recorded, a
\* failure to freeze in update_image included, is not reported as prepared.
C31_PreparedOnlyIfNotAborted ==
    (pc = "prep_done" /\ retval = 0) => ~test_result_state(toi_result, "ABORTED")

(***************************************************************************)
(* Properties of the destinations of the atomic copy                       *)
(***************************************************************************)
\* The most pages that can be marked Pageset1Copy when the image is
\* prepared: the lowmem pages of pageset2 (flag_image_pages, lines 488-500)
\* and the extra pages (suspend_allocate_extra_pagedir_memory).
CopyDestinations == get_lowmem_size(pagedir2) + extra_pages_allocated

PreparedReady ==
    /\ pc = "prep_done"
    /\ retval = 0
    /\ ~test_result_state(toi_result, "ABORTED")

\* C32: when suspend_prepare_image has reported the image ready, the pages
\* marked Pageset1Copy (lowmem pageset2 pages that are not Resave, and the
\* extra pages allocated) are at least pagedir1.size, so that every step
\* of suspend_copy_pageset1 has a destination.
C32_CopyHasDestinations ==
    PreparedReady => CopyDestinations >= pagedir1.size

(***************************************************************************)
(* Properties of the attention list                                        *)
(***************************************************************************)
\* C33: whatever nl_set_nofreeze and suspend_netlink_close do to
\* PF_NOFREEZE between and during the counting pass and the fill pass of
\* suspend_mark_pages_for_pageset2, the fill pass never writes past the
\* end of the attention list, and every entry the last loop processes
\* holds a task that the fill pass wrote into it.
C33_FillStaysInList ==
    /\ att_pc # "at_fault"
    /\ \A k \in 1..Len(att_processed) : att_processed[k].assigned

(***************************************************************************)
(* Properties of what the swap backend reports as allocated                *)
(***************************************************************************)
\* toi_swap_storage_allocated, lines 470-473
toi_swap_storage_allocated == main_pages_requested + header_pages_allocated

\* C34: after any sequence of allocate_storage, allocate_header_space and
\* release_storage, storage_allocated() reports no more pages than
\* swapextents holds; with the chain empty, as release_storage leaves it,
\* it reports 0.
C34_ReportedStorageIsHeld ==
    pc = "sw_idle" => toi_swap_storage_allocated <= swapextents.size

(***************************************************************************)
(* Properties of the clean-up of completed i/o                             *)
(***************************************************************************)
\* C35: under every interleaving of toi_end_bio with toi_finish_all_io,
\* toi_cleanup_completed_io and do_bio_wait, no io_info is cleaned up more
\* than once, one that toi_finish_all_io has passed has been cleaned up,
\* toi_io_to_cleanup is never negative, and the BUG_ON at the end of
\* toi_finish_all_io finds it zero.
C35_CleanedOnceAndCounted ==
    /\ \A io \in Ios : io_cleaned[io] <= 1
    /\ toi_io_to_cleanup >= 0
    /\ bio_pc # "bio_bug"
    /\ bio_pc = "bio_check" =>
          \A io \in Ios : io_state[io] # "none" => io_cleaned[io] = 1

C37_RingInOrder ==
    /\ ra_log.consumed = [k \in 1..Len(ra_log.consumed) |-> k]
    /\ ~ra_log.overrun
    /\ ra_pc # "ra_fault"
    /\ ~(ra_pc = "ra_wait" /\ last_result # 0 /\ ra_unconsumed = {})

(***************************************************************************)
(* Properties of the pools of buffers and of the list of channels          *)
(***************************************************************************)
\* C38: after any sequence of suspend_fill_skb_pool, suspend_get_skb,
\* put_skb and suspend_netlink_close_complete, pool_level is the number of
\* buffers on emerg_skbs and lies between 0 and pool_limit.
C38_PoolLevelCountsBuffers ==
    \A n \in Uhds :
       /\ uhds[n].pool_level = uhds[n].emerg_skbs
       /\ uhds[n].pool_level >= 0
       /\ uhds[n].pool_level <= uhds[n].pool_limit

RECURSIVE UhdWalk(_, _)
\* the channels met from 'from' on along 'next', for at most 'steps' steps
UhdWalk(from, steps) ==
    IF from = "NULL" \/ steps = 0 THEN <<>>
    ELSE <<from>> \o UhdWalk(uhds[from].next, steps - 1)

\* C39: after any number of cycles of suspend_netlink_setup and
\* suspend_netlink_close_complete, the walk from uhd_list along 'next'
\* ends, and meets no user_helper_data twice.
C39_ListAcyclic ==
    Len(UhdWalk(uhd_list, Cardinality(Uhds) + 1)) <= Cardinality(Uhds)

(***************************************************************************)
(* Properties of the console on the failure paths of going atomic          *)
(***************************************************************************)
CallCount(q, call) == Len(SelectSeq(q, LAMBDA e : e.call = call))

\* C40: with PM_PREPARE_CONSOLE set, when suspend2_go_atomic or
\* suspend_atomic_restore has failed, pm_restore_console has been called
\* exactly once for the pm_prepare_console before it, and when
\* suspend_atomic_restore returns suspend2_running is 0.
C40_ConsoleRestoredOnce ==
    /\ (pc \in {"at_failed", "ar_failed"}
        /\ test_action_state(toi_action, "PM_PREPARE_CONSOLE")) =>
          /\ CallCount(atomic_log, "pm_prepare_console") = 1
          /\ CallCount(atomic_log, "pm_restore_console") = 1
    /\ pc = "ar_failed" => suspend2_running = 0

====
